---- MODULE Spec2Model ----
(***************************************************************************)
(* A model of the ferret-8 CHIP-8 emulator: the call stack                 *)
(* (src/emulator/stack.rs), the decoder (src/decoder.rs) and the virtual   *)
(* machine (src/emulator.rs), driven the way src/main.rs drives them.      *)
(*                                                                         *)
(* Representation.  memory is [u8; 4096] with all bytes zero at            *)
(* construction; it is kept as the function from the addresses that hold   *)
(* a non-zero byte to that byte (MemRead gives 0 elsewhere, MemWrite keeps *)
(* the form canonical), so equal memories are equal values.                *)
(* display is [bool; 2048]; it is kept as the set of absolute positions    *)
(* whose pixel is on.                                                      *)
(*                                                                         *)
(* A Rust panic (a failed debug_assert! in a build with debug assertions,  *)
(* an out-of-range index in any build) ends the process: the operation's   *)
(* result is "Panic" and nothing runs afterwards.  Whether debug           *)
(* assertions are compiled in is a property of the build, chosen in Init.  *)
(***************************************************************************)
EXTENDS Integers, Sequences, FiniteSets, TLC

\* ------------------------------------------------------------------------
\* Program constants
\* ------------------------------------------------------------------------
MEMORY_SIZE == 4096
REG_SIZE == 16
START_ADDR == 512
REG_F == 15
KEY_SIZE == 16
STACK_SIZE == 16
DISPLAY_WIDTH == 64
DISPLAY_HEIGHT == 32
MODERN_COMPATIBILITY == TRUE

\* ------------------------------------------------------------------------
\* Bounds of the model
\* ------------------------------------------------------------------------
\* Stack specification: the number of bottom slots for which the client has
\* two values to push (every slot n is pushed the value n, as stack.rs's
\* tests do; the bottom VariedSlots slots are also pushed n + STACK_SIZE + 1).
VariedSlots == 3
\* Machine specification: the number of instruction words of a program
\* placed at START_ADDR.
MaxProgWords == 2

\* ------------------------------------------------------------------------
\* u8 / u16 arithmetic
\* ------------------------------------------------------------------------
Byte == 0..255

RECURSIVE BitAnd(_, _)
BitAnd(a, b) ==
  IF a = 0 \/ b = 0 THEN 0
  ELSE (IF a % 2 = 1 /\ b % 2 = 1 THEN 1 ELSE 0) + 2 * BitAnd(a \div 2, b \div 2)

RECURSIVE BitOr(_, _)
BitOr(a, b) ==
  IF a = 0 THEN b
  ELSE IF b = 0 THEN a
  ELSE (IF a % 2 = 1 \/ b % 2 = 1 THEN 1 ELSE 0) + 2 * BitOr(a \div 2, b \div 2)

RECURSIVE BitXor(_, _)
BitXor(a, b) ==
  IF a = 0 THEN b
  ELSE IF b = 0 THEN a
  ELSE (IF a % 2 # b % 2 THEN 1 ELSE 0) + 2 * BitXor(a \div 2, b \div 2)

\* u8::wrapping_add, u8::wrapping_sub, u8::overflowing_add
wrapping_add(a, b) == (a + b) % 256
wrapping_sub(a, b) == (a - b) % 256
overflowing_add(a, b) == <<(a + b) % 256, a + b > 255>>
\* u8 >> 1 and u8 << 1 (the bit shifted out is lost)
shr1(a) == a \div 2
shl1(a) == (a * 2) % 256

\* ------------------------------------------------------------------------
\* Results of the operations
\* ------------------------------------------------------------------------
Ok == [kind |-> "Ok", val |-> 0]
Err(k, v) == [kind |-> k, val |-> v]
Panic == [kind |-> "Panic", val |-> 0]
NoResult == [kind |-> "None", val |-> 0]

\* ------------------------------------------------------------------------
\* State
\* ------------------------------------------------------------------------
VARIABLES
  memory,            \* Emulator.memory
  reg,               \* Emulator.reg
  reg_i,             \* Emulator.reg_i
  reg_pc,            \* Emulator.reg_pc
  reg_delay,         \* Emulator.reg_delay
  reg_sound,         \* Emulator.reg_sound
  display,           \* Emulator.display
  stack,             \* Emulator.stack: [array, stack_pointer]
  debug_assertions,  \* the build: are debug_assert! checks compiled in
  COMPATIBILITY,     \* cli: the static parse_arguments sets from --modern-compatibility
  phase,             \* position of the caller: "stack", "call", "fetch", "decode", "execute", "halt"
  raw_instr,         \* main: the word fetch returned
  instr,             \* main: the instruction decode returned
  input,             \* main: the keypad snapshot get_input returned (the keys down)
  last,              \* the operation of the last step, with its operands
  res,               \* the result the last operation returned
  shadow,            \* history: the values pushed and not yet popped
  before,            \* history: the emulator the behaviour started with
  vec,               \* main: the bytes read from the program file
  CYCLES,            \* cli: the static parse_arguments sets from --cycles
  cycle,             \* main: the rounds of `for _ in 0..cycles_per_frame` done in this frame
  frame_log          \* history: the calls main has made since the frame began

emu == <<memory, reg, reg_i, reg_pc, reg_delay, reg_sound, display, stack>>
vars == <<memory, reg, reg_i, reg_pc, reg_delay, reg_sound, display, stack,
          debug_assertions, COMPATIBILITY, phase, raw_instr, instr, input, last, res, shadow,
          before, vec, CYCLES, cycle, frame_log>>
\* What main holds besides the emulator and the instruction in flight.
main_vars == <<vec, CYCLES, cycle, frame_log>>

\* ------------------------------------------------------------------------
\* Stack (src/emulator/stack.rs)
\* ------------------------------------------------------------------------
Stack_default == [array |-> [n \in 0..(STACK_SIZE - 1) |-> 0], stack_pointer |-> 0]

\* Stack::push: the stack after the call and the call's result.
push(s, v) ==
  IF s.stack_pointer >= STACK_SIZE
  THEN [stack |-> s, res |-> Err("Overflow", 0)]
  ELSE [stack |-> [array |-> [s.array EXCEPT ![s.stack_pointer] = v],
                   stack_pointer |-> s.stack_pointer + 1],
        res |-> Ok]

\* A pop that returns the bottom entry instead of the top one.
pop_stale(s) ==
  IF s.stack_pointer = 0
  THEN [stack |-> s, res |-> Err("Underflow", 0), val |-> 0]
  ELSE [stack |-> [s EXCEPT !.stack_pointer = s.stack_pointer - 1],
        res |-> Ok,
        val |-> s.array[0]]

\* Stack::pop: the stack after the call, the call's result and, on Ok, the value.
pop(s) ==
  IF s.stack_pointer = 0
  THEN [stack |-> s, res |-> Err("Underflow", 0), val |-> 0]
  ELSE [stack |-> [s EXCEPT !.stack_pointer = s.stack_pointer - 1],
        res |-> Ok,
        val |-> s.array[s.stack_pointer - 1]]

\* ------------------------------------------------------------------------
\* Memory and display representation
\* ------------------------------------------------------------------------
\* memory[a]
MemRead(m, a) == IF a \in DOMAIN m THEN m[a] ELSE 0

\* memory[a] = v
MemWrite(m, a, v) ==
  IF v = 0
  THEN [b \in (DOMAIN m) \ {a} |-> m[b]]
  ELSE [b \in (DOMAIN m) \cup {a} |-> IF b = a THEN v ELSE m[b]]

\* memory[base + k] = bytes[k + 1] for every k < Len(bytes)
MemWriteSeq(m, base, bytes) ==
  LET span == base..(base + Len(bytes) - 1)
      kept == (DOMAIN m) \ span
      set == {a \in span : bytes[a - base + 1] # 0}
  IN [a \in kept \cup set |-> IF a \in set THEN bytes[a - base + 1] ELSE m[a]]

\* ------------------------------------------------------------------------
\* Font table (module font of src/emulator.rs; its file is not in src/)
\* ------------------------------------------------------------------------
FONT_START_ADDRESS == 80
FONT_SIZE == 5
FONTS ==
  << <<240, 144, 144, 144, 240>>, <<32, 96, 32, 32, 112>>,
     <<240, 16, 240, 128, 240>>,  <<240, 16, 240, 16, 240>>,
     <<144, 144, 240, 16, 16>>,   <<240, 128, 240, 16, 240>>,
     <<240, 128, 240, 144, 240>>, <<240, 16, 32, 64, 64>>,
     <<240, 144, 240, 144, 240>>, <<240, 144, 240, 16, 240>>,
     <<240, 144, 240, 144, 144>>, <<224, 144, 224, 144, 224>>,
     <<240, 128, 128, 128, 240>>, <<224, 144, 144, 144, 224>>,
     <<240, 128, 240, 128, 240>>, <<240, 128, 240, 128, 128>> >>

\* ------------------------------------------------------------------------
\* Emulator (src/emulator.rs): construction, load_program, fetch
\* ------------------------------------------------------------------------
\* The emulator as one value; a method maps it to the emulator after the call.
Emu ==
  [memory |-> memory, reg |-> reg, reg_i |-> reg_i, reg_pc |-> reg_pc,
   reg_delay |-> reg_delay, reg_sound |-> reg_sound, display |-> display,
   stack |-> stack]

\* The caller's emulator becomes e.
SetEmu(e) ==
  /\ memory' = e.memory
  /\ reg' = e.reg
  /\ reg_i' = e.reg_i
  /\ reg_pc' = e.reg_pc
  /\ reg_delay' = e.reg_delay
  /\ reg_sound' = e.reg_sound
  /\ display' = e.display
  /\ stack' = e.stack

Emulator_default ==
  [memory |-> [a \in {} |-> 0],
   reg |-> [r \in 0..(REG_SIZE - 1) |-> 0],
   reg_i |-> 0,
   reg_pc |-> START_ADDR,
   reg_delay |-> 0,
   reg_sound |-> 0,
   display |-> {},
   stack |-> Stack_default]

\* Emulator::load_fonts
load_fonts(e) ==
  LET glyphs == {<<f, b>> : f \in 1..Len(FONTS), b \in 1..FONT_SIZE}
      at(g) == FONT_START_ADDRESS + ((g[1] - 1) * FONT_SIZE) + (g[2] - 1)
      lit == {g \in glyphs : FONTS[g[1]][g[2]] # 0}
      span == {at(g) : g \in glyphs}
      byte(a) == LET g == CHOOSE h \in glyphs : at(h) = a IN FONTS[g[1]][g[2]]
  IN [e EXCEPT !.memory =
        [a \in ((DOMAIN e.memory) \ span) \cup {at(g) : g \in lit} |->
           IF a \in span THEN byte(a) ELSE e.memory[a]]]

\* Emulator::new
Emulator_new == load_fonts(Emulator_default)

\* Emulator::load_program
load_program(e, program) ==
  IF Len(program) >= MEMORY_SIZE - START_ADDR
  THEN [emu |-> e, res |-> Err("ProgramTooBig", Len(program))]
  ELSE [emu |-> [e EXCEPT !.memory = MemWriteSeq(e.memory, START_ADDR, program)],
        res |-> Ok]

\* A fetch that takes the low byte first.
fetch_little_endian(e) ==
  IF e.reg_pc + 1 >= MEMORY_SIZE
  THEN [emu |-> e, res |-> Err("InvalidAddress", e.reg_pc), val |-> 0]
  ELSE [emu |-> [e EXCEPT !.reg_pc = e.reg_pc + 2],
        res |-> Ok,
        val |-> MemRead(e.memory, e.reg_pc) + (MemRead(e.memory, e.reg_pc + 1) * 256)]

\* Emulator::fetch: the emulator after the call, the result and, on Ok, the word.
fetch(e) ==
  IF e.reg_pc + 1 >= MEMORY_SIZE
  THEN [emu |-> e, res |-> Err("InvalidAddress", e.reg_pc), val |-> 0]
  ELSE LET value_high == MemRead(e.memory, e.reg_pc) * 256
           value_low == MemRead(e.memory, e.reg_pc + 1)
       IN [emu |-> [e EXCEPT !.reg_pc = e.reg_pc + 2],
           res |-> Ok,
           val |-> value_high + value_low]

\* ------------------------------------------------------------------------
\* Decoder (src/decoder.rs, src/decoder/opcodes.rs)
\* ------------------------------------------------------------------------
SET_PC == 4096
CALL == 8192
SE_INMM == 12288
SNE_INMM == 16384
SE_REG == 20480
LD_INMM == 24576
SUM == 28672
SNE_REG == 36864
LD_I == 40960
JUMP == 45056
RAND == 49152
DISPLAY == 53248
CLS == 224
RET == 238
LD_REG == 32768
OR == 32769
AND == 32770
XOR == 32771
ADD == 32772
SUB == 32773
SHR == 32774
SUBN == 32775
SHL == 32782
SKP == 57502
ST_DELAY == 61447
WAIT_KEY == 61450
LD_DELAY == 61461
LD_SOUND == 61464
ADD_I == 61470

\* An Instruction value: the variant and its payload (unused fields are 0).
Instruction(op, x, y, n) == [op |-> op, x |-> x, y |-> y, n |-> n]
NoInstr == Instruction("None", 0, 0, 0)
\* An Ok(..) with the two register operands exchanged.
Decoded_swapped(op, x, y, n) == [res |-> Ok, instr |-> Instruction(op, y, x, n)]
Decoded(op, x, y, n) == [res |-> Ok, instr |-> Instruction(op, x, y, n)]
Unknown(w) == [res |-> Err("Unknown", w), instr |-> NoInstr]

\* decode.  The arms `SNKP` (group 0xE) and `LD_FONT` (group 0xF) name no
\* constant of opcodes.rs (which defines NSKP and LD_SPRITE), so each is an
\* identifier pattern: it matches every value that reaches it, and the arms
\* after it are never taken.
decode(w) ==
  LET opcode == (w \div 4096) * 4096          \* instr & 0xF000
      reg_x == (w \div 256) % 16               \* (instr & 0x0F00) >> 8
      reg_y == (w \div 16) % 16                \* (instr & 0x00F0) >> 4
      nn == w % 256                            \* instr & 0x00FF
      nnn == w % 4096                          \* instr & 0x0FFF
      n == w % 16                              \* instr & 0x000F
      op8 == opcode + n                        \* instr & 0xF00F
      opEF == opcode + nn                      \* instr & 0xF0FF
  IN CASE opcode = 0 ->
            (CASE w = CLS -> Decoded("Cls", 0, 0, 0)
               [] w = RET -> Decoded("Return", 0, 0, 0)
               [] OTHER -> Unknown(w))
       [] opcode = SET_PC -> Decoded("SetPC", 0, 0, nnn)
       [] opcode = CALL -> Decoded("Call", 0, 0, nnn)
       [] opcode = SE_INMM -> Decoded("SeInmm", reg_x, 0, nn)
       [] opcode = SNE_INMM -> Decoded("SneInmm", reg_x, 0, nn)
       [] opcode = SE_REG -> Decoded("SeReg", reg_x, reg_y, 0)
       [] opcode = LD_INMM -> Decoded("LoadInmm", reg_x, 0, nn)
       [] opcode = SUM -> Decoded("Sum", reg_x, 0, nn)
       [] opcode = 32768 ->
            (CASE op8 = LD_REG -> Decoded("LoadReg", reg_x, reg_y, 0)
               [] op8 = OR -> Decoded("Or", reg_x, reg_y, 0)
               [] op8 = AND -> Decoded("And", reg_x, reg_y, 0)
               [] op8 = XOR -> Decoded("Xor", reg_x, reg_y, 0)
               [] op8 = ADD -> Decoded("Add", reg_x, reg_y, 0)
               [] op8 = SUB -> Decoded("Sub", reg_x, reg_y, 0)
               [] op8 = SHR -> Decoded("ShiftRight", reg_x, reg_y, 0)
               [] op8 = SUBN -> Decoded("SubRev", reg_x, reg_y, 0)
               [] op8 = SHL -> Decoded("ShiftLeft", reg_x, reg_y, 0)
               [] OTHER -> Unknown(w))
       [] opcode = SNE_REG -> Decoded("SneReg", reg_x, reg_y, 0)
       [] opcode = LD_I -> Decoded("LoadI", 0, 0, nnn)
       [] opcode = JUMP -> Decoded("Jump", 0, 0, nnn)
       [] opcode = RAND -> Decoded("Rand", reg_x, 0, nn)
       [] opcode = DISPLAY -> Decoded("Display", reg_x, reg_y, n)
       [] opcode = 57344 ->
            (CASE opEF = SKP -> Decoded("Skip", reg_x, 0, 0)
               [] OTHER -> Decoded("Snkip", reg_x, 0, 0))
       [] opcode = 61440 ->
            (CASE opEF = ST_DELAY -> Decoded("GetDelay", reg_x, 0, 0)
               [] opEF = WAIT_KEY -> Decoded("WaitKey", reg_x, 0, 0)
               [] opEF = LD_DELAY -> Decoded("LoadDelay", reg_x, 0, 0)
               [] opEF = LD_SOUND -> Decoded("LoadSound", reg_x, 0, 0)
               [] opEF = ADD_I -> Decoded("AddI", reg_x, 0, 0)
               [] OTHER -> Decoded("LoadFont", reg_x, 0, 0))
       [] OTHER -> Unknown(w)

\* ------------------------------------------------------------------------
\* Emulator (src/emulator.rs): the instructions
\* Each maps the emulator e to [emu: the emulator after the call, res: the
\* result].  dbg: debug assertions are compiled in.
\* ------------------------------------------------------------------------
Done(e) == [emu |-> e, res |-> Ok]
Fail(e, r) == [emu |-> e, res |-> r]
\* A register operand the array reg has no entry for: debug_assert!(reg < REG_SIZE)
\* fails in a build with debug assertions and the index panics in any build.
BadReg(x) == ~(x < REG_SIZE)

\* Emulator::clear_display
clear_display(e) == Done([e EXCEPT !.display = {}])

\* Emulator::ret
ret(e, dbg) ==
  LET p == pop(e.stack)
  IN IF p.res.kind # "Ok" THEN Fail(e, p.res)
     ELSE IF dbg /\ ~(p.val < MEMORY_SIZE) THEN Fail([e EXCEPT !.stack = p.stack], Panic)
     ELSE Done([e EXCEPT !.stack = p.stack, !.reg_pc = p.val])

\* Emulator::set_pc
set_pc(e, addr, dbg) ==
  IF dbg /\ ~(addr < 4095) THEN Fail(e, Panic)
  ELSE Done([e EXCEPT !.reg_pc = addr])

\* Emulator::call
call(e, addr, dbg) ==
  LET p == push(e.stack, e.reg_pc)
  IN IF dbg /\ ~(addr < 4095) THEN Fail(e, Panic)
     ELSE IF p.res.kind # "Ok" THEN Fail(e, p.res)
     ELSE Done([e EXCEPT !.stack = p.stack, !.reg_pc = addr])

\* A se_inmm that skips whatever the register holds.
se_inmm_always(e, x, inmm) ==
  IF BadReg(x) THEN Fail(e, Panic)
  ELSE Done([e EXCEPT !.reg_pc = e.reg_pc + 2])

\* Emulator::se_inmm
se_inmm(e, x, inmm) ==
  IF BadReg(x) THEN Fail(e, Panic)
  ELSE IF e.reg[x] = inmm THEN Done([e EXCEPT !.reg_pc = e.reg_pc + 2])
  ELSE Done(e)

\* Emulator::sne_inmm
sne_inmm(e, x, inmm) ==
  IF BadReg(x) THEN Fail(e, Panic)
  ELSE IF e.reg[x] # inmm THEN Done([e EXCEPT !.reg_pc = e.reg_pc + 2])
  ELSE Done(e)

\* Emulator::se_reg
se_reg(e, x, y) ==
  IF BadReg(x) \/ BadReg(y) THEN Fail(e, Panic)
  ELSE IF e.reg[x] = e.reg[y] THEN Done([e EXCEPT !.reg_pc = e.reg_pc + 2])
  ELSE Done(e)

\* Emulator::sne_reg
sne_reg(e, x, y) ==
  IF BadReg(x) \/ BadReg(y) THEN Fail(e, Panic)
  ELSE IF e.reg[x] # e.reg[y] THEN Done([e EXCEPT !.reg_pc = e.reg_pc + 2])
  ELSE Done(e)

\* Emulator::load_inmm
load_inmm(e, x, inmm) ==
  IF BadReg(x) THEN Fail(e, Panic)
  ELSE Done([e EXCEPT !.reg[x] = inmm])

\* A sum that also stores the carry in reg[REG_F].
sum_with_carry(e, x, inmm) ==
  IF BadReg(x) THEN Fail(e, Panic)
  ELSE LET s == overflowing_add(e.reg[x], inmm)
           r1 == [e.reg EXCEPT ![x] = s[1]]
       IN Done([e EXCEPT !.reg = [r1 EXCEPT ![REG_F] = IF s[2] THEN 1 ELSE 0]])

\* Emulator::sum
sum(e, x, inmm) ==
  IF BadReg(x) THEN Fail(e, Panic)
  ELSE Done([e EXCEPT !.reg[x] = wrapping_add(e.reg[x], inmm)])

\* Emulator::load_i
load_i(e, inmm, dbg) ==
  IF dbg /\ ~(inmm < 4095) THEN Fail(e, Panic)
  ELSE Done([e EXCEPT !.reg_i = inmm])

\* A jump that reduces the target modulo the memory size and never fails.
jump_masked(e, inmm, dbg) ==
  IF dbg /\ ~(inmm < 4095) THEN Fail(e, Panic)
  ELSE Done([e EXCEPT !.reg_pc = (e.reg[0] + inmm) % MEMORY_SIZE])

\* Emulator::jump (usize::wrapping_add cannot wrap on a u8 plus a 12-bit value)
jump(e, inmm, dbg) ==
  IF dbg /\ ~(inmm < 4095) THEN Fail(e, Panic)
  ELSE LET s == e.reg[0] + inmm
       IN IF s > MEMORY_SIZE THEN Fail(e, Err("InvalidAddress", s))
          ELSE Done([e EXCEPT !.reg_pc = s])

\* Emulator::rand; random is the byte the generator returned
rand(e, x, inmm, random) ==
  IF BadReg(x) THEN Fail(e, Panic)
  ELSE Done([e EXCEPT !.reg[x] = BitAnd(random, inmm)])

\* Display::transform_cords.  The debug assertion rejects a coordinate off
\* the screen; without it the index (y * DISPLAY_WIDTH) + x is bounds-checked
\* against the array of DISPLAY_HEIGHT * DISPLAY_WIDTH pixels.
transform_cords(x, y) == (y * DISPLAY_WIDTH) + x
BadCords(x, y, dbg) ==
  IF dbg THEN ~((x < DISPLAY_WIDTH) /\ (y < DISPLAY_HEIGHT))
  ELSE ~(transform_cords(x, y) < DISPLAY_HEIGHT * DISPLAY_WIDTH)

\* A set that turns the pixel on whatever v is.
Display_set_on(d, x, y, v) == d \cup {transform_cords(x, y)}

\* Display::get and Display::set on the set of lit pixels
Display_get(d, x, y) == transform_cords(x, y) \in d
Display_set(d, x, y, v) ==
  IF v THEN d \cup {transform_cords(x, y)} ELSE d \ {transform_cords(x, y)}

\* The body of the loops of Emulator::display for the sprite bit k
\* (yline = k / 8, xline = k % 8) on st = the framebuffer, reg[REG_F] and
\* whether a panic has stopped the drawing.
DrawBit(st, e, x, y, k, dbg) ==
  LET yline == k \div 8
      xline == k % 8
      sprite_byte == MemRead(e.memory, e.reg_i + yline)
      sprite_bit == (sprite_byte \div (2^(7 - xline))) % 2 = 1
      px == x + xline
      py == y + yline
  IN IF st.panic THEN st
     ELSE IF ~((yline + e.reg_i) < MEMORY_SIZE) THEN [st EXCEPT !.panic = TRUE]
     ELSE IF ~sprite_bit THEN st
     ELSE IF BadCords(px, py, dbg) THEN [st EXCEPT !.panic = TRUE]
     ELSE IF Display_get(st.display, px, py)
          THEN [st EXCEPT !.display = Display_set(st.display, px, py, FALSE), !.vf = 1]
          ELSE [st EXCEPT !.display = Display_set(st.display, px, py, TRUE)]

\* The loops of Emulator::display over the sprite bits k..(n - 1); a panic
\* ends them.
RECURSIVE DrawBits(_, _, _, _, _, _, _)
DrawBits(st, e, x, y, k, n, dbg) ==
  IF k >= n \/ st.panic THEN st
  ELSE DrawBits(DrawBit(st, e, x, y, k, dbg), e, x, y, k + 1, n, dbg)

\* A display that does not reset reg[REG_F] before it draws.
Emulator_display_keep_flag(e, reg_x, reg_y, inmm, dbg) ==
  IF BadReg(reg_x) \/ BadReg(reg_y) THEN Fail(e, Panic)
  ELSE LET x == e.reg[reg_x] % DISPLAY_WIDTH
           y == e.reg[reg_y] % DISPLAY_HEIGHT
           st == DrawBits([display |-> e.display, vf |-> e.reg[REG_F], panic |-> FALSE],
                          e, x, y, 0, 8 * inmm, dbg)
           after == [e EXCEPT !.display = st.display, !.reg[REG_F] = st.vf]
       IN IF st.panic THEN Fail(after, Panic) ELSE Done(after)

\* Emulator::display
Emulator_display(e, reg_x, reg_y, inmm, dbg) ==
  IF BadReg(reg_x) \/ BadReg(reg_y) THEN Fail(e, Panic)
  ELSE LET x == e.reg[reg_x] % DISPLAY_WIDTH
           y == e.reg[reg_y] % DISPLAY_HEIGHT
           st == DrawBits([display |-> e.display, vf |-> 0, panic |-> FALSE],
                          e, x, y, 0, 8 * inmm, dbg)
           after == [e EXCEPT !.display = st.display, !.reg[REG_F] = st.vf]
       IN IF st.panic THEN Fail(after, Panic) ELSE Done(after)

\* Emulator::load_reg
load_reg(e, x, y) ==
  IF BadReg(x) \/ BadReg(y) THEN Fail(e, Panic)
  ELSE Done([e EXCEPT !.reg[x] = e.reg[y]])

\* Emulator::or
or(e, x, y) ==
  IF BadReg(x) \/ BadReg(y) THEN Fail(e, Panic)
  ELSE Done([e EXCEPT !.reg[x] = BitOr(e.reg[x], e.reg[y])])

\* Emulator::and
and(e, x, y) ==
  IF BadReg(x) \/ BadReg(y) THEN Fail(e, Panic)
  ELSE Done([e EXCEPT !.reg[x] = BitAnd(e.reg[x], e.reg[y])])

\* Emulator::xor
xor(e, x, y) ==
  IF BadReg(x) \/ BadReg(y) THEN Fail(e, Panic)
  ELSE Done([e EXCEPT !.reg[x] = BitXor(e.reg[x], e.reg[y])])

\* An add that writes reg[REG_F] before reg[x].
add_flag_first(e, x, y) ==
  IF BadReg(x) \/ BadReg(y) THEN Fail(e, Panic)
  ELSE LET s == overflowing_add(e.reg[x], e.reg[y])
           r1 == [e.reg EXCEPT ![REG_F] = IF s[2] THEN 1 ELSE 0]
       IN Done([e EXCEPT !.reg = [r1 EXCEPT ![x] = s[1]]])

\* Emulator::add: reg[x] is written first, reg[REG_F] second
add(e, x, y) ==
  IF BadReg(x) \/ BadReg(y) THEN Fail(e, Panic)
  ELSE LET s == overflowing_add(e.reg[x], e.reg[y])
           r1 == [e.reg EXCEPT ![x] = s[1]]
       IN Done([e EXCEPT !.reg = [r1 EXCEPT ![REG_F] = IF s[2] THEN 1 ELSE 0]])

\* A sub that sets reg[REG_F] on equal operands too.
sub_flag_on_equal(e, x, y) ==
  IF BadReg(x) \/ BadReg(y) THEN Fail(e, Panic)
  ELSE LET vx == e.reg[x]
           vy == e.reg[y]
           r1 == [e.reg EXCEPT ![REG_F] = IF vx >= vy THEN 1 ELSE 0]
       IN Done([e EXCEPT !.reg = [r1 EXCEPT ![x] = wrapping_sub(vx, vy)]])

\* Emulator::sub: reg[REG_F] is written first, reg[x] second
sub(e, x, y) ==
  IF BadReg(x) \/ BadReg(y) THEN Fail(e, Panic)
  ELSE LET vx == e.reg[x]
           vy == e.reg[y]
           r1 == [e.reg EXCEPT ![REG_F] = IF vx > vy THEN 1 ELSE 0]
       IN Done([e EXCEPT !.reg = [r1 EXCEPT ![x] = wrapping_sub(vx, vy)]])

\* Emulator::rev_sub: reg[REG_F] is written first, reg[x] second
rev_sub(e, x, y) ==
  IF BadReg(x) \/ BadReg(y) THEN Fail(e, Panic)
  ELSE LET vx == e.reg[x]
           vy == e.reg[y]
           r1 == [e.reg EXCEPT ![REG_F] = IF vy > vx THEN 1 ELSE 0]
       IN Done([e EXCEPT !.reg = [r1 EXCEPT ![x] = wrapping_sub(vy, vx)]])

\* Emulator::right_shift: reg[REG_F] is written first; reg[y] is read again after it
right_shift(e, x, y) ==
  IF BadReg(x) \/ BadReg(y) THEN Fail(e, Panic)
  ELSE LET r1 == [e.reg EXCEPT ![REG_F] = IF e.reg[y] % 2 = 1 THEN 1 ELSE 0]
       IN Done([e EXCEPT !.reg = [r1 EXCEPT ![x] = shr1(r1[y])]])

\* Emulator::left_shift: reg[REG_F] is written first; reg[y] is read again after it
left_shift(e, x, y) ==
  IF BadReg(x) \/ BadReg(y) THEN Fail(e, Panic)
  ELSE LET r1 == [e.reg EXCEPT ![REG_F] = IF e.reg[y] \div 128 = 1 THEN 1 ELSE 0]
       IN Done([e EXCEPT !.reg = [r1 EXCEPT ![x] = shl1(r1[y])]])

\* Emulator::skip_key; keys is the set of the pressed keys
skip_key(e, x, keys) ==
  IF BadReg(x) THEN Fail(e, Panic)
  ELSE LET value == e.reg[x]
       IN IF value >= KEY_SIZE THEN Fail(e, Err("UnknownKey", value))
          ELSE IF value \in keys THEN Done([e EXCEPT !.reg_pc = e.reg_pc + 2])
          ELSE Done(e)

\* A snkip_key that skips when the key is down.
snkip_key_when_down(e, x, keys) ==
  IF BadReg(x) THEN Fail(e, Panic)
  ELSE LET value == e.reg[x]
       IN IF value >= KEY_SIZE THEN Fail(e, Err("UnknownKey", value))
          ELSE IF value \in keys THEN Done([e EXCEPT !.reg_pc = e.reg_pc + 2])
          ELSE Done(e)

\* Emulator::snkip_key
snkip_key(e, x, keys) ==
  IF BadReg(x) THEN Fail(e, Panic)
  ELSE LET value == e.reg[x]
       IN IF value >= KEY_SIZE THEN Fail(e, Err("UnknownKey", value))
          ELSE IF value \notin keys THEN Done([e EXCEPT !.reg_pc = e.reg_pc + 2])
          ELSE Done(e)

\* Emulator::get_delay
get_delay(e, x) ==
  IF BadReg(x) THEN Fail(e, Panic)
  ELSE Done([e EXCEPT !.reg[x] = e.reg_delay])

\* Emulator::load_delay
load_delay(e, x) ==
  IF BadReg(x) THEN Fail(e, Panic)
  ELSE Done([e EXCEPT !.reg_delay = e.reg[x]])

\* Emulator::load_sound
load_sound(e, x) ==
  IF BadReg(x) THEN Fail(e, Panic)
  ELSE Done([e EXCEPT !.reg_sound = e.reg[x]])

\* An add_to_index that raises the flag from 0x0FFF on.
add_to_index_from_last(e, x) ==
  IF BadReg(x) THEN Fail(e, Panic)
  ELSE LET i == e.reg_i + e.reg[x]
       IN Done([e EXCEPT !.reg_i = i,
                         !.reg[REG_F] = IF i >= 4095 THEN 1 ELSE 0])

\* Emulator::add_to_index
add_to_index(e, x) ==
  IF BadReg(x) THEN Fail(e, Panic)
  ELSE LET i == e.reg_i + e.reg[x]
       IN Done([e EXCEPT !.reg_i = i,
                         !.reg[REG_F] = IF i > 4095 THEN 1 ELSE 0])

\* A wait_key that leaves reg_pc alone when the key is up.
wait_key_no_rewind(e, x, keys, dbg) ==
  IF BadReg(x) THEN Fail(e, Panic)
  ELSE LET value == e.reg[x]
       IN IF value >= KEY_SIZE THEN Fail(e, Err("UnknownKey", value))
          ELSE Done(e)

\* Emulator::wait_key; reg_pc -= 2 on a usize: below 2 the subtraction panics
\* where overflow is checked (the debug profile) and wraps to 2^64 otherwise.
wait_key(e, x, keys, dbg) ==
  IF BadReg(x) THEN Fail(e, Panic)
  ELSE LET value == e.reg[x]
       IN IF value >= KEY_SIZE THEN Fail(e, Err("UnknownKey", value))
          ELSE IF value \in keys THEN Done(e)
          ELSE IF e.reg_pc >= 2 THEN Done([e EXCEPT !.reg_pc = e.reg_pc - 2])
          ELSE IF dbg THEN Fail(e, Panic)
          ELSE Done([e EXCEPT !.reg_pc = (2^64) + e.reg_pc - 2])

\* A load_font that adds the digit to the base without the glyph size.
load_font_unscaled(e, x) ==
  IF BadReg(x) THEN Fail(e, Panic)
  ELSE LET value == e.reg[x]
       IN IF value <= 15 THEN Done([e EXCEPT !.reg_i = FONT_START_ADDRESS + value])
          ELSE Fail(e, Err("UnknownFont", value))

\* Emulator::load_font
load_font(e, x) ==
  IF BadReg(x) THEN Fail(e, Panic)
  ELSE LET value == e.reg[x]
       IN IF value <= 15 THEN Done([e EXCEPT !.reg_i = FONT_START_ADDRESS + (FONT_SIZE * value)])
          ELSE Fail(e, Err("UnknownFont", value))

\* A binary_dec that checks each address as it writes it.
binary_dec_write_first(e, x) ==
  IF BadReg(x) THEN Fail(e, Panic)
  ELSE LET value == e.reg[x]
           pos0 == e.reg_i
           pos1 == e.reg_i + 1
           pos2 == e.reg_i + 2
           m0 == MemWrite(e.memory, pos0, (value \div 100) % 10)
           m1 == MemWrite(m0, pos1, (value \div 10) % 10)
       IN IF pos0 >= MEMORY_SIZE THEN Fail(e, Err("InvalidAddress", pos0))
          ELSE IF pos1 >= MEMORY_SIZE
               THEN Fail([e EXCEPT !.memory = m0], Err("InvalidAddress", pos1))
          ELSE IF pos2 >= MEMORY_SIZE
               THEN Fail([e EXCEPT !.memory = m1], Err("InvalidAddress", pos2))
          ELSE Done([e EXCEPT !.memory = MemWrite(m1, pos2, value % 10)])

\* Emulator::binary_dec
binary_dec(e, x) ==
  IF BadReg(x) THEN Fail(e, Panic)
  ELSE LET value == e.reg[x]
           pos0 == e.reg_i
           pos1 == e.reg_i + 1
           pos2 == e.reg_i + 2
       IN IF pos0 >= MEMORY_SIZE THEN Fail(e, Err("InvalidAddress", pos0))
          ELSE IF pos1 >= MEMORY_SIZE THEN Fail(e, Err("InvalidAddress", pos1))
          ELSE IF pos2 >= MEMORY_SIZE THEN Fail(e, Err("InvalidAddress", pos2))
          ELSE Done([e EXCEPT !.memory =
                 MemWrite(MemWrite(MemWrite(e.memory, pos0, (value \div 100) % 10),
                                   pos1, (value \div 10) % 10),
                          pos2, value % 10)])

\* The number of rounds of `for r in 0..=x` that pass the address check
\* before the first that fails (x + 1 when none fails).
RoundsInRange(e, x) ==
  IF e.reg_i + x < MEMORY_SIZE THEN x + 1
  ELSE IF e.reg_i >= MEMORY_SIZE THEN 0
  ELSE MEMORY_SIZE - e.reg_i

\* A store_mem that moves reg_i past the registers stored.
store_mem_legacy(e, x) ==
  IF BadReg(x) THEN Fail(e, Panic)
  ELSE LET k == RoundsInRange(e, x)
           written == MemWriteSeq(e.memory, e.reg_i, [r \in 1..k |-> e.reg[r - 1]])
       IN IF k <= x
          THEN Fail([e EXCEPT !.memory = written], Err("InvalidAddress", e.reg_i + k))
          ELSE Done([e EXCEPT !.memory = written, !.reg_i = e.reg_i + x + 1])

\* Emulator::store_mem: the rounds before a failing one have written memory
store_mem(e, x) ==
  IF BadReg(x) THEN Fail(e, Panic)
  ELSE LET k == RoundsInRange(e, x)
           written == MemWriteSeq(e.memory, e.reg_i, [r \in 1..k |-> e.reg[r - 1]])
       IN IF k <= x
          THEN Fail([e EXCEPT !.memory = written], Err("InvalidAddress", e.reg_i + k))
          ELSE Done([e EXCEPT !.memory = written,
                              !.reg_i = IF ~MODERN_COMPATIBILITY
                                        THEN e.reg_i + x + 1 ELSE e.reg_i])

\* Emulator::load_mem: the rounds before a failing one have written registers
load_mem(e, x) ==
  IF BadReg(x) THEN Fail(e, Panic)
  ELSE LET k == RoundsInRange(e, x)
           loaded == [r \in 0..(REG_SIZE - 1) |->
                        IF r < k THEN MemRead(e.memory, e.reg_i + r) ELSE e.reg[r]]
       IN IF k <= x
          THEN Fail([e EXCEPT !.reg = loaded], Err("InvalidAddress", e.reg_i + k))
          ELSE Done([e EXCEPT !.reg = loaded,
                              !.reg_i = IF ~MODERN_COMPATIBILITY
                                        THEN e.reg_i + x + 1 ELSE e.reg_i])

\* Emulator::execute
execute(e, i, keys, random, dbg) ==
  CASE i.op = "Cls" -> clear_display(e)
    [] i.op = "Return" -> ret(e, dbg)
    [] i.op = "SetPC" -> set_pc(e, i.n, dbg)
    [] i.op = "Call" -> call(e, i.n, dbg)
    [] i.op = "SeInmm" -> se_inmm(e, i.x, i.n)
    [] i.op = "SneInmm" -> sne_inmm(e, i.x, i.n)
    [] i.op = "SeReg" -> se_reg(e, i.x, i.y)
    [] i.op = "SneReg" -> sne_reg(e, i.x, i.y)
    [] i.op = "LoadInmm" -> load_inmm(e, i.x, i.n)
    [] i.op = "Sum" -> sum(e, i.x, i.n)
    [] i.op = "LoadI" -> load_i(e, i.n, dbg)
    [] i.op = "Jump" -> jump(e, i.n, dbg)
    [] i.op = "Rand" -> rand(e, i.x, i.n, random)
    [] i.op = "Display" -> Emulator_display(e, i.x, i.y, i.n, dbg)
    [] i.op = "LoadReg" -> load_reg(e, i.x, i.y)
    [] i.op = "Or" -> or(e, i.x, i.y)
    [] i.op = "And" -> and(e, i.x, i.y)
    [] i.op = "Xor" -> xor(e, i.x, i.y)
    [] i.op = "Add" -> add(e, i.x, i.y)
    [] i.op = "Sub" -> sub(e, i.x, i.y)
    [] i.op = "SubRev" -> rev_sub(e, i.x, i.y)
    [] i.op = "ShiftRight" -> right_shift(e, i.x, i.y)
    [] i.op = "ShiftLeft" -> left_shift(e, i.x, i.y)
    [] i.op = "Skip" -> skip_key(e, i.x, keys)
    [] i.op = "Snkip" -> snkip_key(e, i.x, keys)
    [] i.op = "GetDelay" -> get_delay(e, i.x)
    [] i.op = "WaitKey" -> wait_key(e, i.x, keys, dbg)
    [] i.op = "LoadDelay" -> load_delay(e, i.x)
    [] i.op = "LoadSound" -> load_sound(e, i.x)
    [] i.op = "AddI" -> add_to_index(e, i.x)
    [] i.op = "LoadFont" -> load_font(e, i.x)
    [] i.op = "Bcd" -> binary_dec(e, i.x)
    [] i.op = "StMem" -> store_mem(e, i.x)
    [] i.op = "LdMem" -> load_mem(e, i.x)

\* ------------------------------------------------------------------------
\* Steps
\* ------------------------------------------------------------------------
\* The record of a step: the operation, the instruction executed (execute),
\* the value pushed, the pc fetched from or the word decoded (v), and the
\* address of the instruction being run (at).
Op(op, i, v, at) == [op |-> op, instr |-> i, v |-> v, at |-> at]
NoOp == Op("none", NoInstr, 0, 0)
IsOk(r) == r.kind = "Ok"

\* Inputs of execute: the keypad snapshots get_input may return (sets of
\* pressed keys) and the bytes the random generator may return.
KeyChoices == {{}, {1}, 0..15}
RandChoices == {0, 170, 255}
RandFor(i) == IF i.op = "Rand" THEN RandChoices ELSE {0}

\* The abstract call stack after instruction i, fetched from address at, has
\* been run on an emulator whose abstract stack is sh: a LIFO of capacity 16.
ShadowAfter(sh, i, at) ==
  IF i.op = "Call" /\ Len(sh) < STACK_SIZE THEN Append(sh, at + 2)
  ELSE IF i.op = "Return" /\ Len(sh) > 0 THEN SubSeq(sh, 1, Len(sh) - 1)
  ELSE sh

\* The values a client that holds n entries pushes next.
PushValues(n) == {n} \cup (IF n < VariedSlots THEN {n + STACK_SIZE + 1} ELSE {})

\* A client of Stack calls push(v).
Push ==
  /\ phase = "stack"
  /\ \E v \in PushValues(Len(shadow)) :
       LET p == push(stack, v)
       IN /\ stack' = p.stack
          /\ res' = p.res
          /\ last' = Op("push", NoInstr, v, 0)
          /\ shadow' = IF Len(shadow) < STACK_SIZE THEN Append(shadow, v) ELSE shadow
  /\ UNCHANGED <<main_vars, before, COMPATIBILITY, memory, reg, reg_i, reg_pc, reg_delay, reg_sound, display,
                 debug_assertions, phase, raw_instr, instr, input>>

\* A client of Stack calls pop(); on Ok the value returned is res.val.
Pop ==
  /\ phase = "stack"
  /\ LET p == pop(stack)
     IN /\ stack' = p.stack
        /\ res' = [kind |-> p.res.kind, val |-> p.val]
  /\ last' = Op("pop", NoInstr, 0, 0)
  /\ shadow' = IF Len(shadow) > 0 THEN SubSeq(shadow, 1, Len(shadow) - 1) ELSE shadow
  /\ UNCHANGED <<main_vars, before, COMPATIBILITY, memory, reg, reg_i, reg_pc, reg_delay, reg_sound, display,
                 debug_assertions, phase, raw_instr, instr, input>>

\* main: let raw_instr = emu.fetch()?
Fetch ==
  /\ phase = "fetch"
  /\ LET f == fetch(Emu)
     IN /\ SetEmu(f.emu)
        /\ res' = f.res
        /\ raw_instr' = IF IsOk(f.res) THEN f.val ELSE raw_instr
        /\ phase' = IF IsOk(f.res) THEN "decode" ELSE "halt"
  /\ last' = Op("fetch", NoInstr, reg_pc, reg_pc)
  /\ UNCHANGED <<main_vars, before, COMPATIBILITY, debug_assertions, instr, input, shadow>>

\* main: let instr = decode(raw_instr)?
Decode ==
  /\ phase = "decode"
  /\ LET d == decode(raw_instr)
     IN /\ res' = d.res
        /\ instr' = IF IsOk(d.res) THEN d.instr ELSE instr
        /\ phase' = IF IsOk(d.res) THEN "execute" ELSE "halt"
  /\ last' = Op("decode", NoInstr, raw_instr, last.at)
  /\ UNCHANGED <<main_vars, before, COMPATIBILITY, emu, debug_assertions, raw_instr, input, shadow>>

\* main: emu.execute(instr, &mut rng, &input)?
Execute ==
  /\ phase = "execute"
  /\ \E random \in RandFor(instr) :
       LET x == execute(Emu, instr, input, random, debug_assertions)
       IN /\ SetEmu(x.emu)
          /\ res' = x.res
          /\ phase' = IF IsOk(x.res) THEN "fetch" ELSE "halt"
  /\ last' = Op("execute", instr, reg_pc, last.at)
  /\ shadow' = ShadowAfter(shadow, instr, last.at)
  /\ UNCHANGED <<main_vars, before, COMPATIBILITY, debug_assertions, raw_instr, instr, input>>

\* main: the next frame starts after a cycle of the previous one:
\* let input = frontend::get_input(&mut rl)
GetInput ==
  /\ phase = "fetch"
  /\ last.op = "execute"
  /\ input' \in KeyChoices
  /\ last' = Op("input", NoInstr, 0, last.at)
  /\ UNCHANGED <<main_vars, before, COMPATIBILITY, emu, debug_assertions, phase, raw_instr, instr, res, shadow>>

\* A client calls execute(i) once on an emulator it holds.
ByteSamples == {0, 1, 128, 255}
AddrSamples == {0, 512, 3841, 3968, 4094, 4095}
Regs == 0..(REG_SIZE - 1)
ExecInstrs ==
  {Instruction(op, x, y, 0) :
     op \in {"LoadReg", "Or", "And", "Xor", "Add", "Sub", "SubRev",
             "ShiftRight", "ShiftLeft"},
     x \in Regs, y \in Regs}
  \cup {Instruction("Sum", x, 0, nn) : x \in Regs, nn \in ByteSamples}
  \cup {Instruction("Jump", 0, 0, nnn) : nnn \in AddrSamples}

ExecuteOnce ==
  /\ phase = "call"
  /\ \E i \in ExecInstrs :
       \E random \in RandFor(i) :
         LET x == execute(Emu, i, input, random, debug_assertions)
         IN /\ SetEmu(x.emu)
            /\ res' = x.res
            /\ last' = Op("execute", i, reg_pc, reg_pc - 2)
  /\ phase' = "halt"
  /\ UNCHANGED <<main_vars, before, COMPATIBILITY, debug_assertions, raw_instr, instr, input, shadow>>

\* The call a client makes after instr: after a StMem(x) the LdMem(x) that
\* reads the registers back, otherwise the same instruction again.
FollowUp(i) == IF i.op = "StMem" THEN Instruction("LdMem", i.x, 0, 0) ELSE i

\* A client calls execute(instr) and, if that returned Ok, execute(FollowUp(instr))
\* on an emulator it holds; last.v tells the first call from the second.
ExecutePair ==
  /\ phase \in {"first", "second"}
  /\ \E random \in RandFor(instr) :
       LET x == execute(Emu, instr, input, random, debug_assertions)
       IN /\ SetEmu(x.emu)
          /\ res' = x.res
          /\ phase' = IF IsOk(x.res) /\ phase = "first" THEN "second" ELSE "halt"
  /\ instr' = IF phase = "first" THEN FollowUp(instr) ELSE instr
  /\ last' = Op("execute", instr, IF phase = "first" THEN 1 ELSE 2, reg_pc - 2)
  /\ UNCHANGED <<main_vars, before, COMPATIBILITY, debug_assertions, raw_instr, input, shadow>>

\* ------------------------------------------------------------------------
\* main (src/main.rs): the loader and the frames of the scheduler loop
\* ------------------------------------------------------------------------
TARGET_FPS == 60

\* A cycles_per_frame without the floor of one round.
cycles_per_frame_unfloored(cycles) == cycles \div TARGET_FPS

\* main: let cycles_per_frame = { CYCLES / TARGET_FPS, raised to 1 when below }
cycles_per_frame(cycles) ==
  LET aux == cycles \div TARGET_FPS
  IN IF aux < 1 THEN 1 ELSE aux

\* A `?` that goes on to the next statement whatever the call returned.
Propagate_masked(r, next) == next

\* main: the `?` after a call: an Err makes main return it, and a panic ends
\* the process; on Ok main goes on at next.
Propagate(r, next) == IF IsOk(r) THEN next ELSE "halt"

\* Emulator::decrease_timers (not in src/; spec.md "Timer tick")
decrease_timers(e) ==
  [e EXCEPT !.reg_delay = IF e.reg_delay > 0 THEN e.reg_delay - 1 ELSE 0,
            !.reg_sound = IF e.reg_sound > 0 THEN e.reg_sound - 1 ELSE 0]

\* main: emu.load_program(&vec)?
LoadProgram ==
  /\ phase = "load"
  /\ LET l == load_program(Emu, vec)
     IN /\ SetEmu(l.emu)
        /\ res' = l.res
        /\ phase' = Propagate(l.res, "frame")
  /\ last' = Op("load", NoInstr, Len(vec), 0)
  /\ UNCHANGED <<main_vars, before, COMPATIBILITY, debug_assertions, raw_instr, instr,
                 input, shadow>>

\* main: while !rl.window_should_close() { emu.decrease_timers(); ...
Tick ==
  /\ phase = "frame"
  /\ SetEmu(decrease_timers(Emu))
  /\ phase' = "input"
  /\ cycle' = 0
  /\ frame_log' = <<"tick">>
  /\ last' = Op("tick", NoInstr, 0, last.at)
  /\ UNCHANGED <<vec, CYCLES, before, COMPATIBILITY, debug_assertions, raw_instr, instr,
                 input, res, shadow>>

\* main: window_should_close() is true: the loop ends and main returns Ok(())
Close ==
  /\ phase = "frame"
  /\ phase' = "exit"
  /\ res' = Ok
  /\ last' = Op("close", NoInstr, 0, last.at)
  /\ UNCHANGED <<main_vars, emu, before, COMPATIBILITY, debug_assertions, raw_instr, instr,
                 input, shadow>>

\* main: let input = frontend::get_input(&mut rl); the for loop begins
FrameInput ==
  /\ phase = "input"
  /\ input' \in KeyChoices
  /\ phase' = IF cycle < cycles_per_frame(CYCLES) THEN "fetch" ELSE "draw"
  /\ frame_log' = Append(frame_log, "input")
  /\ last' = Op("input", NoInstr, 0, last.at)
  /\ UNCHANGED <<vec, CYCLES, cycle, emu, before, COMPATIBILITY, debug_assertions, raw_instr,
                 instr, res, shadow>>

\* main, in the for loop: let raw_instr = emu.fetch()?
CycleFetch ==
  /\ phase = "fetch"
  /\ LET f == fetch(Emu)
     IN /\ SetEmu(f.emu)
        /\ res' = f.res
        /\ raw_instr' = IF IsOk(f.res) THEN f.val ELSE raw_instr
        /\ phase' = Propagate(f.res, "decode")
  /\ frame_log' = Append(frame_log, "fetch")
  /\ last' = Op("fetch", NoInstr, reg_pc, reg_pc)
  /\ UNCHANGED <<vec, CYCLES, cycle, before, COMPATIBILITY, debug_assertions, instr, input,
                 shadow>>

\* main, in the for loop: let instr = decode(raw_instr)?
CycleDecode ==
  /\ phase = "decode"
  /\ LET d == decode(raw_instr)
     IN /\ res' = d.res
        /\ instr' = IF IsOk(d.res) THEN d.instr ELSE instr
        /\ phase' = Propagate(d.res, "execute")
  /\ frame_log' = Append(frame_log, "decode")
  /\ last' = Op("decode", NoInstr, raw_instr, last.at)
  /\ UNCHANGED <<vec, CYCLES, cycle, emu, before, COMPATIBILITY, debug_assertions, raw_instr,
                 input, shadow>>

\* main, in the for loop: emu.execute(instr, &mut rng, &input)?; then the
\* next round, or past the loop when this was the last one
CycleExecute ==
  /\ phase = "execute"
  /\ \E random \in RandFor(instr) :
       LET x == execute(Emu, instr, input, random, debug_assertions)
       IN /\ SetEmu(x.emu)
          /\ res' = x.res
          /\ phase' = Propagate(x.res, IF cycle + 1 < cycles_per_frame(CYCLES)
                                       THEN "fetch" ELSE "draw")
  /\ cycle' = cycle + 1
  /\ frame_log' = Append(frame_log, "execute")
  /\ last' = Op("execute", instr, reg_pc, last.at)
  /\ shadow' = ShadowAfter(shadow, instr, last.at)
  /\ UNCHANGED <<vec, CYCLES, before, COMPATIBILITY, debug_assertions, raw_instr, instr, input>>

\* main: let mut d = rl.begin_drawing(&th); the framebuffer is shown; the
\* frame is over
Draw ==
  /\ phase = "draw"
  /\ phase' = "frame"
  /\ last' = Op("draw", NoInstr, 0, last.at)
  /\ UNCHANGED <<main_vars, emu, before, COMPATIBILITY, debug_assertions, raw_instr, instr,
                 input, res, shadow>>

\* ------------------------------------------------------------------------
\* Initial states
\* ------------------------------------------------------------------------
\* The caller is not main's loop: no file was read, --cycles has its default
\* (cli.rs:20) and no frame is under way.
NoFrame ==
  /\ vec = <<>>
  /\ CYCLES = 700
  /\ cycle = 0
  /\ frame_log = <<>>

\* The emulator the caller holds is e.
EmuIs(e) ==
  /\ memory = e.memory
  /\ reg = e.reg
  /\ reg_i = e.reg_i
  /\ reg_pc = e.reg_pc
  /\ reg_delay = e.reg_delay
  /\ reg_sound = e.reg_sound
  /\ display = e.display
  /\ stack = e.stack

\* Programs: up to MaxProgWords words at START_ADDR, optionally the word mid
\* at START_ADDR + 0x100 and the byte tail at address MEMORY_SIZE - 2, the
\* last byte of the longest program load_program accepts (0: not placed).
WordSamples == {8704, 8706, 238, 8190, 12287, 8960}
MidSamples == {0, 238}
TailSamples == {0, 35, 48}
Heads == UNION {[1..k -> WordSamples] : k \in 0..MaxProgWords}
ProgramBytes(head, mid, tail) ==
  LET len == IF tail # 0 THEN MEMORY_SIZE - START_ADDR - 1
             ELSE IF mid # 0 THEN 258
             ELSE 2 * Len(head)
      byte(o) ==
        IF o < 2 * Len(head)
        THEN (IF o % 2 = 0 THEN head[(o \div 2) + 1] \div 256
                           ELSE head[(o \div 2) + 1] % 256)
        ELSE IF mid # 0 /\ o = 256 THEN mid \div 256
        ELSE IF mid # 0 /\ o = 257 THEN mid % 256
        ELSE IF tail # 0 /\ o = len - 1 THEN tail
        ELSE 0
  IN [k \in 1..len |-> byte(k - 1)]
Programs ==
  {ProgramBytes(h, m, t) : h \in Heads, m \in MidSamples, t \in TailSamples}

\* main: Emulator::new(), then load_program(&vec)?
Init ==
  /\ \E program \in Programs :
       LET l == load_program(Emulator_new, program)
       IN /\ EmuIs(l.emu)
          /\ res = l.res
          /\ phase = IF IsOk(l.res) THEN "fetch" ELSE "halt"
  /\ debug_assertions \in BOOLEAN
  /\ raw_instr = 0
  /\ instr = NoInstr
  /\ input = {}
  /\ last = NoOp
  /\ shadow = << >>
  /\ before = Emu
  /\ NoFrame
  /\ COMPATIBILITY = FALSE

\* The initial state of main with the program file holding `program`.
InitLoaded(program) ==
  /\ LET l == load_program(Emulator_new, program)
     IN /\ EmuIs(l.emu)
        /\ res = l.res
        /\ phase = IF IsOk(l.res) THEN "fetch" ELSE "halt"
  /\ raw_instr = 0
  /\ instr = NoInstr
  /\ last = NoOp
  /\ shadow = << >>
  /\ before = Emu
  /\ NoFrame
  /\ COMPATIBILITY = FALSE

\* Programs that load V0 and V1, run one skip instruction on them and go on
\* with two Cls: 6000+a, 6100+b, the skip, 00E0, 00E0.
SkipWords ==
  {12288 + nn : nn \in {0, 1, 255}}        \* 30nn SeInmm(0, nn)
  \cup {16384 + nn : nn \in {0, 1, 255}}   \* 40nn SneInmm(0, nn)
  \cup {20496, 20480, 20720}               \* 5010 SeReg(0, 1), 5000, 50F0
  \cup {36880, 36864, 37104}               \* 9010 SneReg(0, 1), 9000, 90F0
  \cup {16128, 20240}                      \* 3F00 SeInmm(15, 0), 4F10 SneInmm(15, 16)
SkipPrograms ==
  {ProgramBytes(<<24576 + a, 24832 + b, w, 224, 224>>, 0, 0) :
     a \in {0, 1, 255}, b \in {0, 1, 255}, w \in SkipWords}

InitSkip ==
  /\ \E program \in SkipPrograms : InitLoaded(program)
  /\ debug_assertions \in BOOLEAN
  /\ input = {}

\* An emulator about to draw: five sprite rows loaded at START_ADDR (the font
\* glyphs are at FONT_START_ADDRESS), V0 and V1 the coordinates, VF = 1, I at
\* a glyph, at the loaded rows or three bytes before the end of memory, and
\* the framebuffer empty, full or holding a few pixels.
SpriteRows == <<255, 129, 128, 1, 0>>
XSamples == {0, 28, 60, 63, 70}
YSamples == {0, 27, 30, 31, 33}
ISamples == {FONT_START_ADDRESS, START_ADDR, MEMORY_SIZE - 3}
FullScreen == 0..((DISPLAY_HEIGHT * DISPLAY_WIDTH) - 1)
Backgrounds == {{}, FullScreen, {0, 1, 64, 1755, 1756, 1820, 2047}}
DrawInstrs ==
  {Instruction("Display", 0, 1, n) : n \in {0, 1, 2, 5}}
  \cup {Instruction("Display", 15, 1, 2), Instruction("Display", 0, 0, 2)}

InitDraw ==
  /\ \E a \in XSamples, b \in YSamples, i \in ISamples, d \in Backgrounds :
       EmuIs([load_program(Emulator_new, SpriteRows).emu EXCEPT
                !.reg = [r \in Regs |-> IF r = REG_F THEN 1 ELSE IF r = 0 THEN a
                                        ELSE IF r = 1 THEN b ELSE 0],
                !.reg_i = i,
                !.reg_pc = START_ADDR + 8,
                !.display = d])
  /\ instr \in DrawInstrs
  /\ debug_assertions \in BOOLEAN
  /\ phase = "first"
  /\ raw_instr = 0
  /\ input = {}
  /\ last = NoOp
  /\ res = NoResult
  /\ shadow = << >>
  /\ before = Emu
  /\ NoFrame
  /\ COMPATIBILITY = FALSE

\* Programs that load a key number into V0 or V5, run one keypad
\* instruction on it and go on with two Cls: 6x00+k, the instruction, 00E0,
\* 00E0.  The first frame's get_input has returned.
KeyRegs == {0, 5}
KeyNumbers == {1, 2, 16}
KeyWords(x) ==
  {57502 + (x * 256),      \* Ex9E
   57505 + (x * 256),      \* ExA1
   61450 + (x * 256)}      \* Fx0A
KeyPrograms ==
  UNION {{ProgramBytes(<<24576 + (x * 256) + k, w, 224, 224>>, 0, 0) :
            k \in KeyNumbers, w \in KeyWords(x)} : x \in KeyRegs}

InitKey ==
  /\ \E program \in KeyPrograms : InitLoaded(program)
  /\ debug_assertions \in BOOLEAN
  /\ input \in KeyChoices

\* An emulator about to access memory through I: the bytes 12 34 56 78 9A
\* loaded at START_ADDR and 0x23 at 0xFFE, register r holding 16 * r + k,
\* and I at the fonts, at the loaded bytes, near the end of memory or past
\* it (AddI does not truncate I).  The command line has or has not given
\* --modern-compatibility.
MemProgram == ProgramBytes(<<4660, 22136, 39424>>, 0, 35)
MemRegs(k) == [r \in Regs |-> ((16 * r) + k) % 256]
MemISamples ==
  {FONT_START_ADDRESS, START_ADDR, 4080, 4088, 4089, 4090, 4093, 4094, 4095, 4096, 4100}
MemInstrs ==
  {Instruction(op, x, 0, 0) : op \in {"StMem", "LdMem", "Bcd", "AddI"}, x \in Regs}

InitMem ==
  /\ \E k \in {7, 156}, i \in MemISamples :
       EmuIs([load_program(Emulator_new, MemProgram).emu EXCEPT
                !.reg = MemRegs(k), !.reg_i = i, !.reg_pc = START_ADDR + 2])
  /\ instr \in MemInstrs
  /\ debug_assertions \in BOOLEAN
  /\ COMPATIBILITY \in BOOLEAN
  /\ phase = "first"
  /\ raw_instr = 0
  /\ input = {}
  /\ last = NoOp
  /\ res = NoResult
  /\ shadow = << >>
  /\ before = Emu
  /\ NoFrame

\* A Stack::new() in the hands of a client.
InitStack ==
  /\ EmuIs(Emulator_new)
  /\ debug_assertions = FALSE
  /\ phase = "stack"
  /\ raw_instr = 0
  /\ instr = NoInstr
  /\ input = {}
  /\ last = NoOp
  /\ res = NoResult
  /\ shadow = << >>
  /\ before = Emu
  /\ NoFrame
  /\ COMPATIBILITY = FALSE

\* An emulator a program has brought to some register contents: the even
\* registers hold a, the odd ones b and VF holds f.
RegFile(a, b, f) ==
  [r \in Regs |-> IF r = REG_F THEN f ELSE IF r % 2 = 0 THEN a ELSE b]

InitExec ==
  /\ \E a \in ByteSamples, b \in ByteSamples, f \in ByteSamples :
       EmuIs([Emulator_new EXCEPT !.reg = RegFile(a, b, f), !.reg_pc = START_ADDR + 2])
  /\ debug_assertions \in BOOLEAN
  /\ phase = "call"
  /\ raw_instr = 0
  /\ instr = NoInstr
  /\ input = {}
  /\ last = NoOp
  /\ res = NoResult
  /\ shadow = << >>
  /\ before = Emu
  /\ NoFrame
  /\ COMPATIBILITY = FALSE

\* main before it loads the file it has read.  The files: short programs
\* that loop, wait for a key, set the delay timer or fail in fetch, decode or
\* execute, and files of FileSizes bytes around the size of the memory left
\* above START_ADDR.  --cycles is one of CycleSamples.
WordBytes(words) ==
  [k \in 1..(2 * Len(words)) |->
     IF k % 2 = 1 THEN words[(k + 1) \div 2] \div 256 ELSE words[(k + 1) \div 2] % 256]
MainWords ==
  { <<4608>>, <<24579, 61461, 4612>>, <<238>>, <<24576, 0>>, <<8191>>, <<8190>>,
    <<24577, 61450, 4608>>, <<8704, 4608>> }
FileSizes == {3583, 3584, 3585, 3600}
FileFill == {0, 7}
File(len, fill) == [k \in 1..len |-> IF k = 1 THEN 18 ELSE IF k = 2 THEN 0 ELSE fill]
MainPrograms ==
  {WordBytes(w) : w \in MainWords} \cup {File(len, fill) : len \in FileSizes, fill \in FileFill}
CycleSamples == {0, 59, 60, 119, 120, 180, 700}

InitMain ==
  /\ EmuIs(Emulator_new)
  /\ vec \in MainPrograms
  /\ CYCLES \in CycleSamples
  /\ cycle = 0
  /\ frame_log = << >>
  /\ debug_assertions \in BOOLEAN
  /\ COMPATIBILITY = FALSE
  /\ phase = "load"
  /\ raw_instr = 0
  /\ instr = NoInstr
  /\ input = {}
  /\ last = NoOp
  /\ res = NoResult
  /\ shadow = << >>
  /\ before = Emu

\* An emulator about to run LoadFont(x): register r holds r + k, so that
\* the registers hold every digit, the first values past 15 and the largest
\* bytes; I is anywhere.
FontRegs(k) == [r \in Regs |-> (r + k) % 256]
FontOffsets == {0, 1, 10, 245}
FontISamples == {0, FONT_START_ADDRESS, START_ADDR, 4095}
InitFont ==
  /\ \E k \in FontOffsets, i \in FontISamples :
       EmuIs([Emulator_new EXCEPT !.reg = FontRegs(k), !.reg_i = i,
                                  !.reg_pc = START_ADDR + 2])
  /\ instr \in {Instruction("LoadFont", x, 0, 0) : x \in Regs}
  /\ debug_assertions \in BOOLEAN
  /\ COMPATIBILITY = FALSE
  /\ phase = "first"
  /\ raw_instr = 0
  /\ input = {}
  /\ last = NoOp
  /\ res = NoResult
  /\ shadow = << >>
  /\ before = Emu
  /\ NoFrame

\* main about to decode a word it has fetched from START_ADDR on a new
\* emulator: any of the 65536 words.
InitDecode ==
  /\ EmuIs([Emulator_new EXCEPT !.reg_pc = START_ADDR + 2])
  /\ raw_instr \in 0..65535
  /\ debug_assertions \in BOOLEAN
  /\ COMPATIBILITY = FALSE
  /\ phase = "decode"
  /\ instr = NoInstr
  /\ input = {}
  /\ last = Op("fetch", NoInstr, START_ADDR, START_ADDR)
  /\ res = Ok
  /\ shadow = << >>
  /\ before = Emu
  /\ NoFrame

\* ------------------------------------------------------------------------
\* Specifications
\* ------------------------------------------------------------------------
Next == Fetch \/ Decode \/ Execute
Spec == Init /\ [][Next]_vars

SpecSkip == InitSkip /\ [][Next]_vars

\* The frames of main: get_input, then one cycle or more.  The loop goes on
\* while no call fails, so a step that can be taken is taken.
NextKey == GetInput \/ Fetch \/ Decode \/ Execute
SpecKey == InitKey /\ [][NextKey]_vars
SpecKeyFair == SpecKey /\ WF_vars(NextKey)

NextDraw == ExecutePair
SpecDraw == InitDraw /\ [][NextDraw]_vars

NextMem == ExecutePair
SpecMem == InitMem /\ [][NextMem]_vars

\* main from the loaded file on: frames until a call fails or the window closes.
NextMain ==
  LoadProgram \/ Tick \/ Close \/ FrameInput \/ CycleFetch \/ CycleDecode \/ CycleExecute \/ Draw
SpecMain == InitMain /\ [][NextMain]_vars

\* One word through decode and, when it decodes, execute.
NextDecode == Decode \/ Execute
SpecDecode == InitDecode /\ [][NextDecode]_vars

NextFont == ExecutePair
SpecFont == InitFont /\ [][NextFont]_vars

NextStack == Push \/ Pop
SpecStack == InitStack /\ [][NextStack]_vars

NextExec == ExecuteOnce
SpecExec == InitExec /\ [][NextExec]_vars

\* ------------------------------------------------------------------------
\* Properties
\* ------------------------------------------------------------------------
\* The step runs execute on the instruction last'.instr.
Ran(op) == last'.op = "execute" /\ last'.instr.op = op
\* Bit k of the byte v.
Bit(v, k) == (v \div (2^k)) % 2
\* The step leaves everything of the emulator but reg as it was.
OnlyRegChanges ==
  /\ memory' = memory
  /\ reg_i' = reg_i
  /\ reg_pc' = reg_pc
  /\ reg_delay' = reg_delay
  /\ reg_sound' = reg_sound
  /\ display' = display
  /\ stack' = stack

\* C1 (SpecStack): from the empty stack, push succeeds iff fewer than 16
\* entries are held and returns Overflow otherwise; pop returns Underflow iff
\* no entry is held and otherwise the most recently pushed value not yet
\* popped.
C1_StackIsLifo ==
  [][/\ last'.op = "push" =>
          /\ IsOk(res') <=> Len(shadow) < 16
          /\ ~IsOk(res') => res'.kind = "Overflow"
     /\ last'.op = "pop" =>
          /\ res'.kind = "Underflow" <=> Len(shadow) = 0
          /\ Len(shadow) > 0 => IsOk(res') /\ res'.val = shadow[Len(shadow)]]_vars

\* C1 witness: after 16 pushes of 0..15, a pop has returned 15.
C1_Witness ==
  /\ last.op = "pop"
  /\ IsOk(res)
  /\ res.val = 15
  /\ stack.stack_pointer = 15

\* C2 (Spec): the stack pointer stays in 0..16; a fetched Call(n) at depth
\* < 16 pushes the address of the Call + 2 and sets pc = n, at depth 16 it
\* returns Overflow; Return at depth > 0 sets pc to the return address of the
\* most recent Call not yet returned from and lowers the depth by one, at
\* depth 0 it returns Underflow.
C2_CallReturn ==
  [][/\ stack.stack_pointer \in 0..16
     /\ Ran("Call") =>
          IF stack.stack_pointer < 16
          THEN /\ IsOk(res')
               /\ stack'.stack_pointer = stack.stack_pointer + 1
               /\ stack'.array[stack.stack_pointer] = last'.at + 2
               /\ \A k \in 0..(stack.stack_pointer - 1) : stack'.array[k] = stack.array[k]
               /\ reg_pc' = last'.instr.n
          ELSE res'.kind = "Overflow"
     /\ Ran("Return") =>
          IF stack.stack_pointer > 0
          THEN /\ IsOk(res')
               /\ Len(shadow) = stack.stack_pointer
               /\ reg_pc' = shadow[Len(shadow)]
               /\ stack'.stack_pointer = stack.stack_pointer - 1
          ELSE res'.kind = "Underflow"]_vars

\* C3 (Spec): fetch with pc + 1 < 4096 returns memory[pc] * 256 + memory[pc+1]
\* and leaves pc increased by 2; fetch with pc + 1 >= 4096 returns
\* InvalidAddress(pc) and leaves the whole emulator unchanged.
C3_Fetch ==
  [][last'.op = "fetch" =>
       IF reg_pc + 1 < 4096
       THEN /\ IsOk(res')
            /\ raw_instr' = (MemRead(memory, reg_pc) * 256) + MemRead(memory, reg_pc + 1)
            /\ reg_pc' = reg_pc + 2
       ELSE /\ res' = Err("InvalidAddress", reg_pc)
            /\ emu' = emu]_vars

\* C3 witness: a fetch at pc = 4095 has returned InvalidAddress(4095).
C3_Witness ==
  /\ last.op = "fetch"
  /\ res = Err("InvalidAddress", 4095)
  /\ reg_pc = 4095

\* C4 (Spec): after each executed instruction, pc < 4096.
C4_PcInMemory ==
  (last.op = "execute" /\ IsOk(res)) => reg_pc < 4096

C6_Add ==
  [][Ran("Add") =>
       LET x == last'.instr.x
           a == reg[x]
           b == reg[last'.instr.y]
           carry == IF a + b >= 256 THEN 1 ELSE 0
       IN /\ IsOk(res')
          /\ reg'[15] = carry
          /\ x # 15 => reg'[x] = (a + b) % 256
          /\ \A r \in Regs \ {x, 15} : reg'[r] = reg[r]]_vars

\* C6 witness: Add(15, 1) with V1 = 255 and a carry has left 1 in VF.
C6_Witness ==
  /\ last.op = "execute"
  /\ last.instr = Instruction("Add", 15, 1, 0)
  /\ reg[1] = 255
  /\ reg[15] = 1

\* C7 (SpecExec): for x in 0..14: after Sub(x, y), V[x] = (a - b) mod 256 and
\* VF = 1 iff a > b; after SubRev(x, y), V[x] = (b - a) mod 256 and VF = 1
\* iff b > a.
C7_SubSubRev ==
  [][/\ (Ran("Sub") /\ last'.instr.x # 15) =>
          LET a == reg[last'.instr.x]
              b == reg[last'.instr.y]
          IN /\ IsOk(res')
             /\ reg'[last'.instr.x] = (a - b) % 256
             /\ reg'[15] = IF a > b THEN 1 ELSE 0
     /\ (Ran("SubRev") /\ last'.instr.x # 15) =>
          LET a == reg[last'.instr.x]
              b == reg[last'.instr.y]
          IN /\ IsOk(res')
             /\ reg'[last'.instr.x] = (b - a) % 256
             /\ reg'[15] = IF b > a THEN 1 ELSE 0]_vars

\* C7 witness: Sub(0, 2) on equal operands 128 has left V0 = 0 and VF = 0.
C7_Witness ==
  /\ last.op = "execute"
  /\ last.instr = Instruction("Sub", 0, 2, 0)
  /\ reg[2] = 128
  /\ reg[0] = 0
  /\ reg[15] = 0

\* C8 (SpecExec): for x in 0..14 and y in 0..15, with b = V[y] before:
\* after ShiftRight(x, y), V[x] = b >> 1 and VF = b & 1; after
\* ShiftLeft(x, y), V[x] = (b << 1) mod 256 and VF = (b >> 7) & 1.
C8_Shifts ==
  [][/\ (Ran("ShiftRight") /\ last'.instr.x # 15) =>
          LET b == reg[last'.instr.y]
          IN /\ IsOk(res')
             /\ reg'[last'.instr.x] = b \div 2
             /\ reg'[15] = b % 2
     /\ (Ran("ShiftLeft") /\ last'.instr.x # 15) =>
          LET b == reg[last'.instr.y]
          IN /\ IsOk(res')
             /\ reg'[last'.instr.x] = (b * 2) % 256
             /\ reg'[15] = (b \div 128) % 2]_vars

\* C9 (SpecExec): for Add, Sub, SubRev, ShiftRight and ShiftLeft run with
\* x = 15, the final V[15] is the instruction's flag: carry, not-borrow or
\* the bit shifted out.
C9_FlagWrittenLast ==
  [][(last'.op = "execute" /\ last'.instr.x = 15) =>
       LET a == reg[15]
           b == reg[last'.instr.y]
           op == last'.instr.op
       IN /\ op = "Add" => reg'[15] = IF a + b >= 256 THEN 1 ELSE 0
          /\ op = "Sub" => reg'[15] = IF a > b THEN 1 ELSE 0
          /\ op = "SubRev" => reg'[15] = IF b > a THEN 1 ELSE 0
          /\ op = "ShiftRight" => reg'[15] = b % 2
          /\ op = "ShiftLeft" => reg'[15] = (b \div 128) % 2]_vars

\* C10 (SpecExec): Sum(x, nn) sets V[x] to (V[x] + nn) mod 256; LoadReg, Or,
\* And, Xor set V[x] to V[y], V[x]|V[y], V[x]&V[y], V[x]^V[y]; for x # 15
\* each leaves VF, every other register, I, pc, the timers, the stack,
\* memory and the framebuffer unchanged.
C10_NoFlagInstructions ==
  [][(last'.op = "execute"
        /\ last'.instr.op \in {"Sum", "LoadReg", "Or", "And", "Xor"}) =>
       LET op == last'.instr.op
           x == last'.instr.x
           a == reg[x]
           b == reg[last'.instr.y]
           v == reg'[x]
       IN /\ IsOk(res')
          /\ op = "Sum" => v = (a + last'.instr.n) % 256
          /\ op = "LoadReg" => v = b
          /\ op = "Or" => \A k \in 0..7 : Bit(v, k) = 1 <=> (Bit(a, k) = 1 \/ Bit(b, k) = 1)
          /\ op = "And" => \A k \in 0..7 : Bit(v, k) = 1 <=> (Bit(a, k) = 1 /\ Bit(b, k) = 1)
          /\ op = "Xor" => \A k \in 0..7 : Bit(v, k) = 1 <=> (Bit(a, k) # Bit(b, k))
          /\ v \in Byte
          /\ x # 15 => /\ \A r \in Regs \ {x} : reg'[r] = reg[r]
                       /\ OnlyRegChanges]_vars

\* C10 witness: Sum(0, 1) on V0 = 255 has wrapped V0 to 0 and left VF = 128.
C10_Witness ==
  /\ last.op = "execute"
  /\ last.instr = Instruction("Sum", 0, 0, 1)
  /\ reg[0] = 0
  /\ reg[2] = 255
  /\ reg[15] = 128

\* The predicate of the skip instruction i on the registers r.
SkipOps == {"SeInmm", "SneInmm", "SeReg", "SneReg"}
SkipTaken(i, r) ==
  CASE i.op = "SeInmm" -> r[i.x] = i.n
    [] i.op = "SneInmm" -> r[i.x] # i.n
    [] i.op = "SeReg" -> r[i.x] = r[i.y]
    [] i.op = "SneReg" -> r[i.x] # r[i.y]

\* C11 (SpecSkip): SeInmm, SneInmm, SeReg and SneReg increase pc by exactly 2
\* iff their predicate holds and otherwise leave it; they change no register,
\* nor I, memory, the stack or the framebuffer; the fetch that follows reads
\* at the instruction's address + 4 when the predicate holds, + 2 otherwise.
C11_Skips ==
  [][/\ (last'.op = "execute" /\ last'.instr.op \in SkipOps) =>
          /\ IsOk(res')
          /\ reg_pc' = reg_pc + (IF SkipTaken(last'.instr, reg) THEN 2 ELSE 0)
          /\ reg' = reg
          /\ reg_i' = reg_i
          /\ memory' = memory
          /\ stack' = stack
          /\ display' = display
     /\ (last.op = "execute" /\ last.instr.op \in SkipOps /\ last'.op = "fetch") =>
          last'.at = last.at + (IF SkipTaken(last.instr, reg) THEN 4 ELSE 2)]_vars

\* C11 witness: after SeInmm(0, 255) at 0x204 with V0 = 255, the instruction
\* run next is the one at 0x208.
C11_Witness ==
  /\ last.op = "execute"
  /\ last.instr.op = "Cls"
  /\ last.at = 520
  /\ MemRead(memory, 516) = 48
  /\ MemRead(memory, 517) = 255
  /\ reg[0] = 255

\* Bit c (from the left) of row r of the sprite at address i of memory m.
SpriteBit(m, i, r, c) == Bit(MemRead(m, i + r), 7 - c) = 1
\* The framebuffer d with the n-row sprite at i XORed on at (sx, sy), the
\* bits that fall off the screen dropped.
XorSprite(d, m, i, sx, sy, n) ==
  {pos \in FullScreen :
     LET px == pos % DISPLAY_WIDTH
         py == pos \div DISPLAY_WIDTH
     IN (pos \in d) #
        (/\ px \in sx..(sx + 7)
         /\ py \in sy..(sy + n - 1)
         /\ SpriteBit(m, i, py - sy, px - sx))}
\* A set bit of that sprite lands on the screen on a pixel that is on in d.
Collides(d, m, i, sx, sy, n) ==
  \E r \in 0..(n - 1), c \in 0..7 :
    /\ SpriteBit(m, i, r, c)
    /\ sx + c < DISPLAY_WIDTH
    /\ sy + r < DISPLAY_HEIGHT
    /\ (((sy + r) * DISPLAY_WIDTH) + sx + c) \in d
\* The sprite of the Display instruction i lies wholly inside the screen.
Inside(i, r) ==
  /\ (r[i.x] % DISPLAY_WIDTH) + 7 < DISPLAY_WIDTH
  /\ (r[i.y] % DISPLAY_HEIGHT) + i.n - 1 < DISPLAY_HEIGHT

\* C12 (SpecDraw): for a sprite wholly inside the screen and I + n <= 4096,
\* Display(x, y, n) makes every pixel (sx + c, sy + r) its old value XOR the
\* sprite bit, leaves every other pixel, and ends with VF = 1 iff a set
\* sprite bit landed on a pixel that was on, else 0.
C12_DrawXors ==
  [][(Ran("Display") /\ Inside(last'.instr, reg) /\ reg_i + last'.instr.n <= 4096) =>
       LET i == last'.instr
           sx == reg[i.x] % DISPLAY_WIDTH
           sy == reg[i.y] % DISPLAY_HEIGHT
       IN /\ IsOk(res')
          /\ display' = XorSprite(display, memory, reg_i, sx, sy, i.n)
          /\ reg'[15] = IF Collides(display, memory, reg_i, sx, sy, i.n) THEN 1 ELSE 0]_vars

\* C12 witness: the glyph at 0x050 drawn at (28, 27) on a full framebuffer
\* has turned its pixels off and set VF.
C12_Witness ==
  /\ last.op = "execute"
  /\ last.v = 1
  /\ last.instr = Instruction("Display", 0, 1, 5)
  /\ before.display = FullScreen
  /\ reg_i = 80
  /\ reg[0] = 28
  /\ reg[1] = 27
  /\ reg[15] = 1
  /\ 1756 \notin display
  /\ 1760 \in display

\* The sprite has a set bit.
HasSetBit(m, i, n) == \E r \in 0..(n - 1), c \in 0..7 : SpriteBit(m, i, r, c)
\* The pixel index a set bit at row r, column c of a sprite at (sx, sy) is
\* drawn at, a coordinate past the right edge running on into the next row.
Target(sx, sy, r, c) == ((sy + r) * DISPLAY_WIDTH) + sx + c
\* A draw of the n-row sprite at i at (sx, sy) panics: a row address is past
\* the memory, or a set bit targets a coordinate off the screen (debug
\* assertions) or an index past the framebuffer (any build).
DrawPanics(m, i, sx, sy, n, dbg) ==
  \E r \in 0..(n - 1) :
    \/ i + r >= MEMORY_SIZE
    \/ \E c \in 0..7 :
         /\ SpriteBit(m, i, r, c)
         /\ IF dbg THEN sx + c >= DISPLAY_WIDTH \/ sy + r >= DISPLAY_HEIGHT
            ELSE Target(sx, sy, r, c) >= DISPLAY_HEIGHT * DISPLAY_WIDTH
\* The step is the second of two Display(x, y, n) in a row, V[x], V[y], I and
\* memory being what they were before the first.
SecondDraw ==
  /\ Ran("Display")
  /\ last'.v = 2
  /\ reg[last'.instr.x] = before.reg[last'.instr.x]
  /\ reg[last'.instr.y] = before.reg[last'.instr.y]
  /\ reg_i = before.reg_i
  /\ memory = before.memory

C14_DrawClips ==
  [][(Ran("Display") /\ reg_i + last'.instr.n <= 4096) =>
       LET i == last'.instr
           sx == reg[i.x] % DISPLAY_WIDTH
           sy == reg[i.y] % DISPLAY_HEIGHT
       IN /\ IsOk(res')
          /\ display' = XorSprite(display, memory, reg_i, sx, sy, i.n)]_vars

\* The step leaves everything of the emulator but reg_pc as it was.
OnlyPcChanges ==
  /\ memory' = memory
  /\ reg' = reg
  /\ reg_i' = reg_i
  /\ reg_delay' = reg_delay
  /\ reg_sound' = reg_sound
  /\ display' = display
  /\ stack' = stack
\* The address of the keypad instruction of KeyPrograms.
KeyInstrAddr == START_ADDR + 2
\* A cycle is about to fetch a WaitKey(x) at KeyInstrAddr, and the snapshot
\* the cycle will be run with has the key V[x] down.
WaitingWithKeyDown ==
  /\ phase = "fetch"
  /\ last.op \in {"none", "input"}
  /\ reg_pc = KeyInstrAddr
  /\ LET d == decode((MemRead(memory, reg_pc) * 256) + MemRead(memory, reg_pc + 1))
     IN /\ d.instr.op = "WaitKey"
        /\ reg[d.instr.x] \in input
\* A WaitKey at KeyInstrAddr has been run and the program is past it.
PastWaitKey ==
  /\ last.op = "execute"
  /\ last.instr.op = "WaitKey"
  /\ IsOk(res)
  /\ reg_pc = KeyInstrAddr + 2

FirstBadAddress(i) == IF i >= MEMORY_SIZE THEN i ELSE MEMORY_SIZE

\* C17 (SpecMem): StoreMem(x) with I + x < 4096 sets memory[I + r] = V[r]
\* for r in 0..x and changes no other byte, no register and not I;
\* LoadMem(x) with I + x < 4096 sets V[r] = memory[I + r] for r in 0..x and
\* changes no other register, no memory and not I; LoadMem(x) after
\* StoreMem(x) leaves V[0..x] as they were; with I + x >= 4096 either
\* returns InvalidAddress of the first address >= 4096.
C17_StoreLoadMem ==
  [][/\ Ran("StMem") =>
          LET x == last'.instr.x
          IN IF reg_i + x < 4096
             THEN /\ IsOk(res')
                  /\ \A a \in (DOMAIN memory) \cup (DOMAIN memory') \cup (reg_i..(reg_i + x)) :
                       MemRead(memory', a) = IF a \in reg_i..(reg_i + x)
                                             THEN reg[a - reg_i]
                                             ELSE MemRead(memory, a)
                  /\ reg' = reg
                  /\ reg_i' = reg_i
             ELSE res' = Err("InvalidAddress", FirstBadAddress(reg_i))
     /\ Ran("LdMem") =>
          LET x == last'.instr.x
          IN IF reg_i + x < 4096
             THEN /\ IsOk(res')
                  /\ \A r \in Regs :
                       reg'[r] = IF r <= x THEN MemRead(memory, reg_i + r) ELSE reg[r]
                  /\ memory' = memory
                  /\ reg_i' = reg_i
                  /\ (last'.v = 2 /\ last.instr.op = "StMem") =>
                       \A r \in 0..x : reg'[r] = before.reg[r]
             ELSE res' = Err("InvalidAddress", FirstBadAddress(reg_i))]_vars

\* C17 witness: StoreMem(3) at I = 4090 and then LoadMem(3) have run; the
\* four bytes hold V0..V3 and the registers are as before.
C17_Witness ==
  /\ last.op = "execute"
  /\ last.v = 2
  /\ last.instr = Instruction("LdMem", 3, 0, 0)
  /\ IsOk(res)
  /\ reg_i = 4090
  /\ MemRead(before.memory, 4090) = 0
  /\ reg = before.reg
  /\ MemRead(memory, 4090) = 156
  /\ MemRead(memory, 4093) = 204
  /\ MemRead(memory, 4094) = 35
  /\ MemRead(before.memory, 4093) = 0

\* The step leaves everything of the emulator but memory as it was.
OnlyMemoryChanges ==
  /\ reg' = reg
  /\ reg_i' = reg_i
  /\ reg_pc' = reg_pc
  /\ reg_delay' = reg_delay
  /\ reg_sound' = reg_sound
  /\ display' = display
  /\ stack' = stack

\* C18 (SpecMem): the --modern-compatibility option selects what a
\* successful StoreMem(x) or LoadMem(x) does to I: without the option I
\* ends at I + x + 1, with it I is unchanged.
C18_OptionSelectsRule ==
  [][((Ran("StMem") \/ Ran("LdMem")) /\ IsOk(res')) =>
       reg_i' = IF COMPATIBILITY THEN reg_i ELSE reg_i + last'.instr.x + 1]_vars

\* C19 (SpecMem): Bcd(x) with I + 2 < 4096 writes the hundreds, tens and
\* units of V[x] at I, I + 1, I + 2 (100 * h + 10 * t + u = V[x]) and changes
\* nothing else; with one of I, I + 1, I + 2 >= 4096 it returns
\* InvalidAddress of the first such address and writes no byte.
C19_Bcd ==
  [][Ran("Bcd") =>
       LET v == reg[last'.instr.x]
           digit(a) == IF a = reg_i THEN v \div 100
                       ELSE IF a = reg_i + 1 THEN (v \div 10) % 10
                       ELSE v % 10
       IN IF reg_i + 2 < 4096
          THEN /\ IsOk(res')
               /\ \A a \in (DOMAIN memory) \cup (DOMAIN memory') \cup (reg_i..(reg_i + 2)) :
                    MemRead(memory', a) = IF a \in reg_i..(reg_i + 2)
                                          THEN digit(a)
                                          ELSE MemRead(memory, a)
               /\ (100 * MemRead(memory', reg_i)) + (10 * MemRead(memory', reg_i + 1))
                    + MemRead(memory', reg_i + 2) = v
               /\ OnlyMemoryChanges
          ELSE /\ res' = Err("InvalidAddress", FirstBadAddress(reg_i))
               /\ memory' = memory
               /\ OnlyMemoryChanges]_vars

\* C19 witness: Bcd(0) has run with V0 = 156 and I at the loaded bytes; the
\* three bytes there, 12 34 56 before, now hold 1, 5, 6.
C19_Witness ==
  /\ last.op = "execute"
  /\ last.v = 1
  /\ last.instr = Instruction("Bcd", 0, 0, 0)
  /\ IsOk(res)
  /\ reg[0] = 156
  /\ reg_i = START_ADDR
  /\ MemRead(before.memory, START_ADDR) = 18
  /\ MemRead(memory, START_ADDR) = 1
  /\ MemRead(memory, START_ADDR + 1) = 5
  /\ MemRead(memory, START_ADDR + 2) = 6
  /\ MemRead(memory, START_ADDR + 3) = 120

\* C20 (SpecMem): AddI(x) sets I to I + V[x] without truncating it to 12
\* bits and sets VF to 1 iff the new I is greater than 0x0FFF, else to 0.
C20_AddI ==
  [][Ran("AddI") =>
       /\ IsOk(res')
       /\ reg_i' = reg_i + reg[last'.instr.x]
       /\ reg'[REG_F] = IF reg_i' > 4095 THEN 1 ELSE 0
       /\ \A r \in Regs \ {REG_F} : reg'[r] = reg[r]
       /\ memory' = memory
       /\ reg_pc' = reg_pc
       /\ stack' = stack
       /\ display' = display]_vars

\* C20 witness: AddI(0) has run twice with V0 = 7 from I = 4088; the first
\* took I to 0x0FFF with VF = 0, the second past it, to 4102, with VF = 1.
C20_Witness ==
  /\ last.op = "execute"
  /\ last.v = 2
  /\ last.instr = Instruction("AddI", 0, 0, 0)
  /\ before.reg_i = 4088
  /\ reg[0] = 7
  /\ reg_i = 4102
  /\ reg[REG_F] = 1

\* C21 (SpecMain): load_program accepts every program of at most 3584 bytes,
\* copying byte i to memory[0x200 + i] and leaving the rest of memory and pc
\* as they were, and returns ProgramTooBig(len), memory unchanged, for every
\* longer program.
C21_LoadProgram ==
  [][last'.op = "load" =>
       LET len == Len(vec)
           span == START_ADDR..(START_ADDR + len - 1)
       IN IF len <= 3584
          THEN /\ IsOk(res')
               /\ \A a \in (DOMAIN memory) \cup (DOMAIN memory') \cup span :
                    MemRead(memory', a) = IF a \in span THEN vec[a - START_ADDR + 1]
                                          ELSE MemRead(memory, a)
               /\ reg_pc' = reg_pc
          ELSE /\ res' = Err("ProgramTooBig", len)
               /\ memory' = memory]_vars

\* The calls of a frame that runs n cycles.
FrameCalls(n) ==
  [k \in 1..(2 + (3 * n)) |->
     IF k = 1 THEN "tick"
     ELSE IF k = 2 THEN "input"
     ELSE <<"fetch", "decode", "execute">>[((k - 3) % 3) + 1]]

\* C22 (SpecMain): a frame that raises no error is one timer tick, made
\* before any instruction of the frame, and then exactly max(1, C div 60)
\* fetch-decode-execute steps, C being the --cycles option; while a frame
\* is under way its tick is the first call of the frame.
C22_Frame ==
  /\ (phase = "draw") =>
       frame_log = FrameCalls(IF CYCLES \div 60 > 1 THEN CYCLES \div 60 ELSE 1)
  /\ (phase \in {"input", "fetch", "decode", "execute", "draw"}) =>
       /\ frame_log[1] = "tick"
       /\ \A k \in 2..Len(frame_log) : frame_log[k] # "tick"

\* C22 witness: with --cycles 0 a frame has run to its end: the delay timer
\* the program set to 3 was decremented and one instruction was run.
C22_Witness ==
  /\ phase = "draw"
  /\ CYCLES = 0
  /\ frame_log = <<"tick", "input", "fetch", "decode", "execute">>
  /\ reg_delay = 2
  /\ last.op = "execute"

\* The result is an error a call returned.
IsErr(r) == r.kind \notin {"Ok", "None", "Panic"}

\* C23 (SpecMain): once fetch, decode or execute has returned an error no
\* call follows it: main is over, in the middle of the frame, and the error
\* is what the run returned.
C23_ErrorsEndTheRun ==
  /\ [](IsErr(res) => phase = "halt")
  /\ [][~IsErr(res)]_vars

\* C23 witness: with three cycles a frame, Return on the empty stack failed in
\* the first cycle of the first frame, and main is over with that error.
C23_Witness ==
  /\ phase = "halt"
  /\ res.kind = "Underflow"
  /\ last.op = "execute"
  /\ cycles_per_frame(CYCLES) = 3
  /\ frame_log = <<"tick", "input", "fetch", "decode", "execute">>

\* An entry of the opcode table, and the result for a word it does not list.
Entry(op, x, y, n) == [res |-> [kind |-> "Ok", val |-> 0],
                       instr |-> [op |-> op, x |-> x, y |-> y, n |-> n]]
NoEntry(w) == [res |-> [kind |-> "Unknown", val |-> w],
               instr |-> [op |-> "None", x |-> 0, y |-> 0, n |-> 0]]

\* The opcode table: what decode is to return for the word w, NoEntry(w)
\* for a word that matches no pattern of the table.
Listed(w) ==
  LET h == w \div 4096
      x == (w \div 256) % 16
      y == (w \div 16) % 16
      n == w % 16
      nn == w % 256
      nnn == w % 4096
  IN CASE h = 0 -> (IF w = 224 THEN Entry("Cls", 0, 0, 0)
                    ELSE IF w = 238 THEN Entry("Return", 0, 0, 0)
                    ELSE NoEntry(w))
       [] h = 1 -> Entry("SetPC", 0, 0, nnn)
       [] h = 2 -> Entry("Call", 0, 0, nnn)
       [] h = 3 -> Entry("SeInmm", x, 0, nn)
       [] h = 4 -> Entry("SneInmm", x, 0, nn)
       [] h = 5 -> (IF n = 0 THEN Entry("SeReg", x, y, 0) ELSE NoEntry(w))
       [] h = 6 -> Entry("LoadInmm", x, 0, nn)
       [] h = 7 -> Entry("Sum", x, 0, nn)
       [] h = 8 -> (CASE n = 0 -> Entry("LoadReg", x, y, 0)
                      [] n = 1 -> Entry("Or", x, y, 0)
                      [] n = 2 -> Entry("And", x, y, 0)
                      [] n = 3 -> Entry("Xor", x, y, 0)
                      [] n = 4 -> Entry("Add", x, y, 0)
                      [] n = 5 -> Entry("Sub", x, y, 0)
                      [] n = 6 -> Entry("ShiftRight", x, y, 0)
                      [] n = 7 -> Entry("SubRev", x, y, 0)
                      [] n = 14 -> Entry("ShiftLeft", x, y, 0)
                      [] OTHER -> NoEntry(w))
       [] h = 9 -> (IF n = 0 THEN Entry("SneReg", x, y, 0) ELSE NoEntry(w))
       [] h = 10 -> Entry("LoadI", 0, 0, nnn)
       [] h = 11 -> Entry("Jump", 0, 0, nnn)
       [] h = 12 -> Entry("Rand", x, 0, nn)
       [] h = 13 -> Entry("Display", x, y, n)
       [] h = 14 -> (CASE nn = 158 -> Entry("Skip", x, 0, 0)
                       [] nn = 161 -> Entry("Snkip", x, 0, 0)
                       [] OTHER -> NoEntry(w))
       [] h = 15 -> (CASE nn = 7 -> Entry("GetDelay", x, 0, 0)
                       [] nn = 10 -> Entry("WaitKey", x, 0, 0)
                       [] nn = 21 -> Entry("LoadDelay", x, 0, 0)
                       [] nn = 24 -> Entry("LoadSound", x, 0, 0)
                       [] nn = 30 -> Entry("AddI", x, 0, 0)
                       [] nn = 41 -> Entry("LoadFont", x, 0, 0)
                       [] nn = 51 -> Entry("Bcd", x, 0, 0)
                       [] nn = 85 -> Entry("StMem", x, 0, 0)
                       [] nn = 101 -> Entry("LdMem", x, 0, 0)
                       [] OTHER -> NoEntry(w))

\* decode has just returned what the table lists for the word it was given.
AsListed ==
  /\ res = Listed(raw_instr).res
  /\ IsOk(res) => instr = Listed(raw_instr).instr
\* decode has just been called on a word of the group with high nibble h.
DecodedGroup(h) == last.op = "decode" /\ raw_instr \div 4096 = h

C25_DecodeKeysAndF ==
  ((DecodedGroup(14) \/ DecodedGroup(15)) /\ IsOk(Listed(raw_instr).res)) => AsListed

\* C26 (SpecDecode): for every word Exkk with kk neither 9E nor A1 and every
\* word Fxkk with kk none of 07, 0A, 15, 18, 1E, 29, 33, 55, 65, decode
\* returns Unknown carrying the word.
C26_UnknownInEF ==
  ((DecodedGroup(14) \/ DecodedGroup(15)) /\ ~IsOk(Listed(raw_instr).res))
    => res = Err("Unknown", raw_instr)

\* C27 (SpecDecode): every word that matches no pattern of the opcode table
\* yields Unknown(word); among them the words 5xyN and 9xyN with N # 0.
C27_TableExhaustive ==
  (last.op = "decode" /\ ~IsOk(Listed(raw_instr).res)) => res = Err("Unknown", raw_instr)

\* C30 (SpecDecode): no instruction that decode returns trips an operand
\* assertion of the operation execute dispatches it to (register index < 16,
\* address operand of SetPC, Call, LoadI, Jump < 0xFFF), whatever the word:
\* on the new emulator, where no other assertion can fail, execute of a
\* decoded instruction does not panic in a build with debug assertions.
C30_OperandAssertions ==
  (last.op = "execute" /\ debug_assertions) => res # Panic

\* C28 (SpecFont): LoadFont(x) with V[x] in 0..15 sets I to font_base +
\* 5 * V[x], the address of the first of the five bytes preloaded for the
\* digit V[x], and changes nothing else; with V[x] > 15 it returns
\* UnknownFont(V[x]) and leaves I (and everything else) unchanged.
C28_LoadFont ==
  [][Ran("LoadFont") =>
       LET v == reg[last'.instr.x]
       IN /\ IF v <= 15
             THEN /\ IsOk(res')
                  /\ reg_i' = FONT_START_ADDRESS + (5 * v)
                  /\ \A b \in 0..4 : MemRead(memory, reg_i' + b) = FONTS[v + 1][b + 1]
             ELSE /\ res' = Err("UnknownFont", v)
                  /\ reg_i' = reg_i
          /\ memory' = memory
          /\ reg' = reg
          /\ reg_pc' = reg_pc
          /\ reg_delay' = reg_delay
          /\ reg_sound' = reg_sound
          /\ display' = display
          /\ stack' = stack]_vars

\* C28 witness: LoadFont(0) has run with V0 = 10 and I = 0x200 before; I is
\* now 130 = 80 + 5 * 10, where the glyph of A (F0 90 F0 90 90) begins.
C28_Witness ==
  /\ last.op = "execute"
  /\ last.v = 1
  /\ last.instr = Instruction("LoadFont", 0, 0, 0)
  /\ IsOk(res)
  /\ reg[0] = 10
  /\ before.reg_i = START_ADDR
  /\ reg_i = 130
  /\ MemRead(memory, 130) = 240
  /\ MemRead(memory, 131) = 144
  /\ MemRead(memory, 134) = 144

\* C29 (SpecMem): whenever execute returns an error, memory, the registers,
\* I, pc, the timers, the stack and the framebuffer are as they were before
\* the call: a StMem or LdMem that fails part-way has written no byte and
\* no register.
C29_ErrorsChangeNothing ==
  [][(last'.op = "execute" /\ IsErr(res')) => UNCHANGED emu]_vars

\* C31 (Spec): in every reachable state every return address held on the
\* call stack is below 4096, and a Return never stops on its assertion that
\* the popped value is a memory address.
C31_ReturnAddressesInMemory ==
  /\ \A k \in 0..(stack.stack_pointer - 1) : stack.array[k] < MEMORY_SIZE
  /\ (last.op = "execute" /\ last.instr.op = "Return") => res # Panic

\* Programs that set I and draw a sprite at (0, 0):
\*   Annn, D00n                 I = nnn by LoadI
\*   60kk, Annn, F01E, D11n     I = nnn + kk by LoadI and AddI
\*   60kk, F029, D11n           I = the glyph of V0 by LoadFont
SpriteIAddrs == {FONT_START_ADDRESS, 4080, 4091, 4094, 4095}
SpriteIRows == {0, 1, 5, 15}
SpriteIAdds == {0, 2, 255}
SpriteIGlyphs == {0, 15, 255}
SpriteIPrograms ==
  {ProgramBytes(<<40960 + a, 53248 + n>>, 0, 0) :
     a \in SpriteIAddrs, n \in SpriteIRows}
  \cup {ProgramBytes(<<24576 + k, 40960 + a, 61470, 53520 + n>>, 0, 0) :
          k \in SpriteIAdds, a \in SpriteIAddrs, n \in SpriteIRows}
  \cup {ProgramBytes(<<24576 + k, 61481, 53520 + n>>, 0, 0) :
          k \in SpriteIGlyphs, n \in SpriteIRows}

InitSprite ==
  /\ \E program \in SpriteIPrograms : InitLoaded(program)
  /\ debug_assertions \in BOOLEAN
  /\ input = {}

SpecSprite == InitSprite /\ [][Next]_vars

\* C32 (SpecSprite): whenever a program that set I by LoadI, AddI or LoadFont
\* executes Display(x, y, n), I + r < 4096 for each of the n rows r, and
\* Display does not stop on its assertion or on an index out of memory.
C32_SpriteRowsInMemory ==
  [][Ran("Display") =>
       /\ \A r \in 0..(last'.instr.n - 1) : reg_i + r < MEMORY_SIZE
       /\ res' # Panic]_vars

====
